---- MODULE Spec2Model ----
(***************************************************************************)
(* Session / permission / interrupt coordination of the agent server       *)
(* (src/server/agent-server.js): the session registry, the WebSocket       *)
(* message handlers, the permission gate canUseTool with its 30 s timer,   *)
(* session cleanup, the two agent workflows that call the gate, and the    *)
(* message generator that feeds the agent conversation.                    *)
(***************************************************************************)
EXTENDS Integers, Sequences, FiniteSets, TLC

(***************************************************************************)
(* Bounds of the model                                                     *)
(***************************************************************************)
NumSessionIds == 1      \* session identifiers in play
MaxRecords == 2         \* session records ever allocated
MaxSockets == 2         \* WebSocket connections ever opened
MaxCalls == 2           \* tool-use callbacks ever made by agent runs
MaxQueue == 2           \* interrupts a record ever accepts (the queue is unbounded)
MaxDrivers == 2         \* message generators ever started
MaxRuns == 2            \* runTask invocations accepted per session id
MaxWaits == 2           \* loop passes and 500 ms waits counted per generator

SessionIds == 1..NumSessionIds
RecIds == 1..MaxRecords
SockIds == 1..MaxSockets
CallIds == 1..MaxCalls
DrvIds == 1..MaxDrivers

(***************************************************************************)
(* Values                                                                  *)
(***************************************************************************)
\* Tool names an agent may ask for: a managed one and one outside the list.
ToolNames == {"Read", "WebFetch"}

\* managedTools of the questions workflow
ManagedTools == {"Bash", "Read", "Grep", "Glob", "Write", "Edit", "TodoWrite"}

\* Opaque tool inputs: what the agent passes, and what a client may put in
\* updatedInput
AgentInputs == {"in0"}
Inputs == {"in0", "in1"}

\* Interrupt texts
Texts == {"m1", "m2"}

\* session.settings: null, or whatever object the client sent.  perms[t] is
\* the value of settings.permissions[t]: "true" (boolean true), "false",
\* "yes" (a truthy value that is not true) or "undef" (absent).  msg tells
\* the objects of different messages apart: the request answered, for the
\* settings message of an 'Always Allow', and 0 for any other.
NullSettings ==
    [present |-> FALSE, perms |-> [t \in ToolNames |-> "undef"], msg |-> 0]

\* What the client sends: Read is auto-approved, WebFetch carries a truthy
\* value that is not the boolean true.
SettingsValues ==
    { [present |-> TRUE,
       perms |-> [t \in ToolNames |-> IF t = "Read" THEN "true" ELSE "yes"],
       msg |-> 0] }

\* Results of a permission decision: { behavior, updatedInput | message }
Result(b, i, m) == [behavior |-> b, updatedInput |-> i, message |-> m]

NoResult == Result("none", "-", "-")
Allow(input) == Result("allow", input, "-")
Deny(message) == Result("deny", "-", message)

SessionNotFoundDeny == Deny("Session not found")
NoConnectionDeny == Deny("No browser connection")
TimeoutDeny == Deny("Permission request timed out after 30 seconds")
SessionClosedDeny == Deny("Session closed")
NotAllowedDeny == Deny("Tool is not allowed")

\* data.result of a permission_response: what the dialog sends, or no
\* result field at all.
ClientResults ==
    { Allow("in1"), Deny("User denied"), Result("undefined", "-", "-") }

\* A message put on a socket
Msg(k, type, req, text) == [sock |-> k, type |-> type, req |-> req, text |-> text]

\* A message the generator yields into the agent conversation
UserMessage(content) == [type |-> "user", role |-> "user", content |-> content]

\* The initial prompt of a run: the content of its tracking file
InitialPrompt(wf) == IF wf = "questions" THEN "questionsContent" ELSE "actionsContent"

(***************************************************************************)
(* State                                                                   *)
(***************************************************************************)
VARIABLES
    sessions,   \* the registry: session id -> record id, 0 when absent
    records,    \* the session objects, by record id (orphans stay on the heap)
    socks,      \* the WebSocket connections
    call,       \* the tool-use callbacks and their promises / timers
    run,        \* the runTask invocation of each session id
    sent,       \* the messages the last step put on sockets, in order
    threw,      \* whether the last step's handler threw
    driver,     \* the message generators (createMessageGenerator instances)
    files,      \* the tracking files, as the completion checks see them
    hist,       \* per record: the interrupts accepted and those delivered
    mon,        \* a tracking file on disk and the completion check made on it
    relay       \* the event loop of an agent run: its buffers and what it sent

vars == <<sessions, records, socks, call, run, sent, threw, driver, files, hist,
          mon, relay>>

\* The generators, tracking files and interrupt history stay as they are
DriverIdle == UNCHANGED <<driver, files, hist>>

\* The file under the completion check and the event loop stay as they are
StreamIdle == UNCHANGED <<mon, relay>>

\* questionsFilePath / actionsFilePath are TRUE once a run has stored them;
\* questionsCompleted / actionsCompleted are FALSE while undefined or false.
FreshRecord ==
    [sid |-> 0, socket |-> 0, settings |-> NullSettings, aborted |-> FALSE,
     abortEvents |-> 0, pendingPermissions |-> {}, interruptQueue |-> <<>>,
     questionsFilePath |-> FALSE, questionsCompleted |-> FALSE,
     actionsFilePath |-> FALSE, actionsCompleted |-> FALSE,
     workspace |-> "none", repoStatus |-> "none"]

\* The client's side of a request: answer is "none" until the user answers
\* 'Always Allow', "settings" once the settings message of that answer has
\* reached the server over the socket sock, "always" once its
\* permission_response has
NoDialog == [answer |-> "none", sock |-> 0]

FreshCall ==
    [state |-> "unused", sid |-> 0, tool |-> "-", input |-> "-",
     gate |-> FALSE, rec |-> 0, timer |-> "none", outcome |-> NoResult,
     by |-> "none", resolves |-> 0, dialog |-> NoDialog]

\* n counts the invocations accepted so far, waits the 100 ms waits for
\* the settings begun by the current one; warned is whether it went on
\* without settings, instructions the repoInstructions it built
NoRun ==
    [pc |-> "none", wf |-> "none", rec |-> 0, driver |-> 0, n |-> 0,
     waits |-> 0, warned |-> FALSE, instructions |-> "none"]

\* The invocation has returned or thrown
Returned(r) == [NoRun EXCEPT !.n = r.n]

\* A generator: where it is suspended, the session object it looked up, what
\* it has yielded, how many passes of its loop did not end it, how many
\* 500 ms waits it has begun and why it returned
FreshDriver ==
    [state |-> "unused", sid |-> 0, wf |-> "none", rec |-> 0, runrec |-> 0,
     out |-> << >>, passes |-> 0, waits |-> 0, exit |-> "none"]

\* The counters of a generator stop at MaxWaits
Count(n) == IF n < MaxWaits THEN n + 1 ELSE n

NoHistory == [accepted |-> << >>, delivered |-> << >>]

Workflows == {"questions", "actions"}

\* No completion check under way
NoMonitor ==
    [wf |-> "none", status |-> "missing", content |-> << >>, pc |-> "idle",
     result |-> FALSE, raised |-> FALSE, loop |-> "polling"]

\* The locals of the event loop before the first message of the stream
\* (block: the type of the content block the stream has open; deltas: the
\* deltas that block has carried so far; blocks: the blocks started)
FreshRelay ==
    [currentThinkingText |-> << >>, currentToolName |-> "null",
     currentToolInput |-> << >>, block |-> "none", deltas |-> << >>,
     blocks |-> 0]

Init ==
    /\ sessions = [s \in SessionIds |-> 0]
    /\ records = [r \in RecIds |-> FreshRecord]
    /\ socks = [k \in SockIds |-> [sid |-> 0, state |-> "unused"]]
    /\ call = [c \in CallIds |-> FreshCall]
    /\ run = [s \in SessionIds |-> NoRun]
    /\ sent = <<>>
    /\ threw = FALSE
    /\ driver = [d \in DrvIds |-> FreshDriver]
    /\ files = [wf \in Workflows |-> "pending"]
    /\ hist = [r \in RecIds |-> NoHistory]
    /\ mon = NoMonitor
    /\ relay = [s \in SessionIds |-> FreshRelay]

\* Allocation: the next unused record / socket / call, 0 when the bound is hit
Min(S) == CHOOSE x \in S : \A y \in S : x <= y
NextRec == LET free == {r \in RecIds : records[r].sid = 0}
           IN IF free = {} THEN 0 ELSE Min(free)
NextSock == LET free == {k \in SockIds : socks[k].state = "unused"}
            IN IF free = {} THEN 0 ELSE Min(free)
NextCall == LET free == {c \in CallIds : call[c].state = "unused"}
            IN IF free = {} THEN 0 ELSE Min(free)
NextDrv == LET free == {d \in DrvIds : driver[d].state = "unused"}
           IN IF free = {} THEN 0 ELSE Min(free)

(***************************************************************************)
(* Helpers of the handlers                                                 *)
(***************************************************************************)
\* AbortController.abort(): the signal is set by the first call only
Abort(rec) ==
    IF rec.aborted THEN rec
    ELSE [rec EXCEPT !.aborted = TRUE, !.abortEvents = @ + 1]

\* clearTimeout(pending.timeout)
ClearTimeout(cr) ==
    IF cr.timer = "armed" THEN [cr EXCEPT !.timer = "cleared"] ELSE cr

\* The promise's resolve(): only the first call settles the promise
Resolve(cr, result, by) ==
    IF cr.state = "resolved"
    THEN [cr EXCEPT !.resolves = @ + 1]
    ELSE [cr EXCEPT !.state = "resolved", !.outcome = result, !.by = by,
                    !.resolves = @ + 1]

\* Variant: the lookup misses the permissions object and finds nothing
IsAutoApproved_WrongKey(settings, tool) == FALSE

\* settings?.permissions?.[toolName] === true
IsAutoApproved(settings, tool) == settings.perms[tool] = "true"

\* sendProgress(sessionId, message, type): looks the session up again
SendProgress(s, type, text) ==
    IF sessions[s] # 0 /\ records[sessions[s]].socket # 0
    THEN << Msg(records[sessions[s]].socket, type, 0, text) >>
    ELSE << >>

\* The session a handler finds under id s: sessions.get(sessionId)
Found(s) == sessions[s] # 0
Session(s) == records[sessions[s]]

\* Deliveries of the last step (a step that sends nothing leaves none)
Quiet == sent' = << >> /\ threw' = FALSE

(***************************************************************************)
(* Session registry                                                        *)
(***************************************************************************)
\* createSession(): a fresh identifier with an empty record
CreateSession(s) ==
    /\ \A r \in RecIds : records[r].sid # s
    /\ NextRec # 0
    /\ records' = [records EXCEPT ![NextRec] = [FreshRecord EXCEPT !.sid = s]]
    /\ sessions' = [sessions EXCEPT ![s] = NextRec]
    /\ Quiet
    /\ DriverIdle
    /\ StreamIdle
    /\ UNCHANGED <<socks, call, run>>

\* Variant: the session object is built anew on every connection
Connect_Anew(s) ==
    /\ NextSock # 0
    /\ IF Found(s)
       THEN /\ records' = [records EXCEPT ![sessions[s]] =
                              [FreshRecord EXCEPT !.sid = s, !.socket = NextSock]]
            /\ UNCHANGED sessions
       ELSE /\ NextRec # 0
            /\ records' = [records EXCEPT ![NextRec] =
                              [FreshRecord EXCEPT !.sid = s, !.socket = NextSock]]
            /\ sessions' = [sessions EXCEPT ![s] = NextRec]
    /\ socks' = [socks EXCEPT ![NextSock] = [sid |-> s, state |-> "open"]]
    /\ sent' = << Msg(NextSock, "connected", 0, "-") >>
    /\ threw' = FALSE
    /\ DriverIdle
    /\ StreamIdle
    /\ UNCHANGED <<call, run>>

\* wss.on('connection'): get or create the session, attach the socket
Connect(s) ==
    /\ NextSock # 0
    /\ IF Found(s)
       THEN /\ records' = [records EXCEPT ![sessions[s]].socket = NextSock]
            /\ UNCHANGED sessions
       ELSE /\ NextRec # 0
            /\ records' = [records EXCEPT ![NextRec] =
                              [FreshRecord EXCEPT !.sid = s, !.socket = NextSock]]
            /\ sessions' = [sessions EXCEPT ![s] = NextRec]
    /\ socks' = [socks EXCEPT ![NextSock] = [sid |-> s, state |-> "open"]]
    /\ sent' = << Msg(NextSock, "connected", 0, "-") >>
    /\ threw' = FALSE
    /\ DriverIdle
    /\ StreamIdle
    /\ UNCHANGED <<call, run>>

\* Variant: the pending request is denied but its timer is left running
CleanupPending_NoClear(cr) == Resolve(cr, SessionClosedDeny, "cleanup")

\* cleanupSession(sessionId), the part on a pending permission:
\* clearTimeout(pending.timeout); pending.resolve({deny, 'Session closed'})
CleanupPending(cr) == Resolve(ClearTimeout(cr), SessionClosedDeny, "cleanup")

\* cleanupSession(sessionId): abort, deny what is pending, drop the record
CleanupRecords(recs, s) ==
    IF Found(s) THEN [recs EXCEPT ![sessions[s]] = Abort(@)] ELSE recs

\* Variant: every request ever made for the id is denied again
CleanupCalls_ById(s) ==
    [c \in CallIds |->
        IF call[c].sid = s /\ call[c].gate
        THEN CleanupPending(call[c])
        ELSE call[c]]

CleanupCalls(s) ==
    [c \in CallIds |->
        IF Found(s) /\ c \in Session(s).pendingPermissions
        THEN CleanupPending(call[c])
        ELSE call[c]]

CleanupSessions(s) == [sessions EXCEPT ![s] = 0]

\* ws.on('close'): cleanupSession(sessionId) of the connection's session id
SocketClose(k) ==
    /\ socks[k].state = "open"
    /\ socks' = [socks EXCEPT ![k].state = "closed"]
    /\ records' = CleanupRecords(records, socks[k].sid)
    /\ call' = CleanupCalls(socks[k].sid)
    /\ sessions' = CleanupSessions(socks[k].sid)
    /\ Quiet
    /\ DriverIdle
    /\ StreamIdle
    /\ UNCHANGED run

(***************************************************************************)
(* handleBrowserMessage, one action per message type                       *)
(***************************************************************************)
Ignored ==
    Quiet /\ DriverIdle /\ StreamIdle /\ UNCHANGED <<sessions, records, socks, call, run>>

\* case 'settings': session.settings = data.settings
MsgSettings(k, v) ==
    /\ socks[k].state = "open"
    /\ LET s == socks[k].sid IN
       IF ~Found(s) THEN Ignored
       ELSE /\ records' = [records EXCEPT ![sessions[s]].settings = v]
            /\ Quiet
            /\ DriverIdle
            /\ StreamIdle
            /\ UNCHANGED <<sessions, socks, call, run>>

\* Variant: the message is put at the front of the queue
Enqueue_Front(queue, m) == << m >> \o queue

\* session.interruptQueue.push(message)
Enqueue(queue, m) == Append(queue, m)

\* case 'interrupt': handleInterrupt queues the text and acknowledges it
MsgInterrupt(k, m) ==
    /\ socks[k].state = "open"
    /\ LET s == socks[k].sid IN
       IF ~Found(s) THEN Ignored
       ELSE /\ Len(hist[sessions[s]].accepted) < MaxQueue
            /\ records' = [records EXCEPT ![sessions[s]].interruptQueue =
                              Enqueue(@, m)]
            /\ hist' = [hist EXCEPT ![sessions[s]].accepted = Append(@, m)]
            /\ sent' = SendProgress(s, "interrupt", m)
            /\ threw' = FALSE
            /\ StreamIdle
            /\ UNCHANGED <<sessions, socks, call, run, driver, files>>

\* case 'stop': handleStop aborts, tells the client, then cleans up
MsgStop(k) ==
    /\ socks[k].state = "open"
    /\ LET s == socks[k].sid IN
       IF ~Found(s) THEN Ignored
       ELSE /\ records' = CleanupRecords(
                              [records EXCEPT ![sessions[s]] = Abort(@)], s)
            /\ sent' = SendProgress(s, "error", "Agent stopped by user")
            /\ call' = CleanupCalls(s)
            /\ sessions' = CleanupSessions(s)
            /\ threw' = FALSE
            /\ DriverIdle
            /\ StreamIdle
            /\ UNCHANGED <<socks, run>>

\* Variant: the response resolves the promise but leaves the timer running
ResponsePending_NoClear(cr, result) == Resolve(cr, result, "response")

\* Variant: the response's updatedInput is dropped for the agent's own input
ResponsePending_OwnInput(cr, result) ==
    Resolve(ClearTimeout(cr),
            IF result.behavior = "allow" THEN Allow(cr.input) ELSE result,
            "response")

\* case 'permission_response', on the pending entry found:
\* clearTimeout(pending.timeout); pending.resolve(data.result)
ResponsePending(cr, result) == Resolve(ClearTimeout(cr), result, "response")

\* Variant: the entry is left in the map
ResponseDelete_Keep(pendingPermissions, reqId) == pendingPermissions

\* session.pendingPermissions.delete(data.requestId)
ResponseDelete(pendingPermissions, reqId) == pendingPermissions \ {reqId}

\* case 'permission_response'.  The closing console.log reads
\* data.result.behavior, which throws (into the caller's try/catch) when the
\* message has no result.
MsgPermissionResponse(k, reqId, result) ==
    /\ socks[k].state = "open"
    /\ LET s == socks[k].sid IN
       IF ~Found(s) THEN Ignored
       ELSE IF reqId \notin Session(s).pendingPermissions THEN Ignored
       ELSE /\ call' = [call EXCEPT ![reqId] = ResponsePending(@, result)]
            /\ records' = [records EXCEPT ![sessions[s]].pendingPermissions =
                              ResponseDelete(@, reqId)]
            /\ sent' = << >>
            /\ threw' = (result.behavior = "undefined")
            /\ DriverIdle
            /\ StreamIdle
            /\ UNCHANGED <<sessions, socks, run>>

\* case 'ping': pong on the session's current socket
MsgPing(k) ==
    /\ socks[k].state = "open"
    /\ LET s == socks[k].sid IN
       IF ~Found(s) THEN Ignored
       ELSE /\ sent' = << Msg(Session(s).socket, "pong", 0, "-") >>
            /\ threw' = FALSE
            /\ DriverIdle
            /\ StreamIdle
            /\ UNCHANGED <<sessions, records, socks, call, run>>

(***************************************************************************)
(* Permission gate                                                         *)
(***************************************************************************)
\* Variant: the auto-approve lookup comes before the socket check
GateDecision_AutoFirst(s, tool) ==
    IF ~Found(s) THEN "notfound"
    ELSE IF IsAutoApproved(Session(s).settings, tool) THEN "auto"
    ELSE IF Session(s).socket = 0 THEN "nosocket"
    ELSE "ask"

\* canUseTool, the order of its checks
GateDecision(s, tool) ==
    IF ~Found(s) THEN "notfound"
    ELSE IF Session(s).socket = 0 THEN "nosocket"
    ELSE IF IsAutoApproved(Session(s).settings, tool) THEN "auto"
    ELSE "ask"

\* canUseTool(sessionId, toolName, input, options) for the callback c
CanUseTool(c, cr) ==
    LET d == GateDecision(cr.sid, cr.tool)
        g == [cr EXCEPT !.gate = TRUE]
    IN
    IF d = "notfound" THEN
        /\ call' = [call EXCEPT ![c] = Resolve(g, SessionNotFoundDeny, "gate")]
        /\ Quiet
        /\ UNCHANGED records
    ELSE IF d = "nosocket" THEN
        /\ call' = [call EXCEPT ![c] = Resolve(g, NoConnectionDeny, "gate")]
        /\ Quiet
        /\ UNCHANGED records
    ELSE IF d = "auto" THEN
        /\ call' = [call EXCEPT ![c] = Resolve(g, Allow(cr.input), "auto")]
        /\ Quiet
        /\ UNCHANGED records
    ELSE
        /\ call' = [call EXCEPT ![c] =
                       [g EXCEPT !.state = "pending", !.rec = sessions[cr.sid],
                                 !.timer = "armed"]]
        /\ records' = [records EXCEPT ![sessions[cr.sid]].pendingPermissions =
                          @ \cup {c}]
        /\ sent' = << Msg(Session(cr.sid).socket, "permission_request", c, cr.tool) >>
        /\ threw' = FALSE

\* The timer's callback: delete the entry of the captured session, deny
TimeoutPending(cr) ==
    Resolve([cr EXCEPT !.timer = "fired"], TimeoutDeny, "timeout")

\* Variant: the timer's callback leaves the entry in the map
TimeoutDelete_Keep(pendingPermissions, c) == pendingPermissions

\* session.pendingPermissions.delete(requestId) of the timer's callback
TimeoutDelete(pendingPermissions, c) == pendingPermissions \ {c}

PermissionTimeout(c) ==
    /\ call[c].timer = "armed"
    /\ call' = [call EXCEPT ![c] = TimeoutPending(@)]
    /\ records' = [records EXCEPT ![call[c].rec].pendingPermissions =
                      TimeoutDelete(@, c)]
    /\ Quiet
    /\ DriverIdle
    /\ StreamIdle
    /\ UNCHANGED <<sessions, socks, run>>

(***************************************************************************)
(* The client's permission dialog, answered with 'Always Allow'            *)
(***************************************************************************)
\* chrome.storage's agent_permissions before the answer: nothing stored, or
\* what the client has been sending
ClientStored == { NullSettings.perms } \cup { v.perms : v \in SettingsValues }

\* Variant: the stored permissions are sent as they were
AlwaysSettings_Stored(stored, tool, c) ==
    [present |-> TRUE, perms |-> stored, msg |-> c]

\* savePermissionSetting(toolName, true), then sendSettings(): the stored
\* permissions with permissions[toolName] = true
AlwaysSettings(stored, tool, c) ==
    [present |-> TRUE, perms |-> [stored EXCEPT ![tool] = "true"], msg |-> c]

\* The request c was put on a socket, and the user answers it with 'Always
\* Allow' while the client of that session is connected on socket k: the
\* settings message goes first, and the server's case 'settings' handles it
DialogSettings(k, c, stored) ==
    /\ call[c].rec # 0
    /\ call[c].dialog.answer = "none"
    /\ socks[k].state = "open"
    /\ socks[k].sid = call[c].sid
    /\ call' = [call EXCEPT ![c].dialog = [answer |-> "settings", sock |-> k]]
    /\ records' = IF Found(call[c].sid)
                  THEN [records EXCEPT ![sessions[call[c].sid]].settings =
                           AlwaysSettings(stored, call[c].tool, c)]
                  ELSE records
    /\ Quiet
    /\ DriverIdle
    /\ StreamIdle
    /\ UNCHANGED <<sessions, socks, run>>

\* The permission_response of the same answer, the next message on the same
\* socket: { behavior: 'allow', updatedInput: request.input }, handled by
\* the server's case 'permission_response'
DialogResponse(c) ==
    /\ call[c].dialog.answer = "settings"
    /\ socks[call[c].dialog.sock].state = "open"
    /\ LET s == call[c].sid
           heard == [call EXCEPT ![c].dialog.answer = "always"]
       IN IF ~Found(s) \/ c \notin Session(s).pendingPermissions
          THEN /\ call' = heard
               /\ UNCHANGED records
          ELSE /\ call' = [heard EXCEPT
                              ![c] = ResponsePending(@, Allow(call[c].input))]
               /\ records' = [records EXCEPT
                                 ![sessions[s]].pendingPermissions =
                                     ResponseDelete(@, c)]
    /\ Quiet
    /\ DriverIdle
    /\ StreamIdle
    /\ UNCHANGED <<sessions, socks, run>>

(***************************************************************************)
(* The agent runs (answerQuestionsWithAgent / completeActionsWithAgent)    *)
(***************************************************************************)
\* Variant: the entry checks without the one of the socket
RunTaskEntry_NoSocketCheck(s) ==
    IF ~Found(s) THEN "Session not found" ELSE "ok"

\* The entry checks of runTask: the error thrown, or "ok"
RunTaskEntry(s) ==
    IF ~Found(s) THEN "Session not found"
    ELSE IF Session(s).socket = 0 THEN "WebSocket not connected"
    ELSE "ok"

\* What the HTTP handler answers to the outcome of runTask: .then 200,
\* .catch 500 with the error's message
HttpAnswer(error) ==
    IF error = "ok" THEN [status |-> 200, success |-> TRUE, error |-> "-"]
    ELSE [status |-> 500, success |-> FALSE, error |-> error]

\* Entry of runTask: the session must exist and have a socket; the function
\* then suspends (settings wait, repository preparation) holding the record.
RunTaskBegin(s, wf) ==
    /\ run[s].pc = "none"
    /\ run[s].n < MaxRuns
    /\ RunTaskEntry(s) = "ok"
    /\ run' = [run EXCEPT ![s] =
                   [NoRun EXCEPT !.pc = "suspended", !.wf = wf,
                                 !.rec = sessions[s], !.n = run[s].n + 1,
                                 !.waits = IF Session(s).settings.present
                                           THEN 0 ELSE 1]]
    /\ Quiet
    /\ DriverIdle
    /\ StreamIdle
    /\ UNCHANGED <<sessions, records, socks, call>>

\* runTask called for an id without record or without socket: it throws
\* at once
RunTaskRejected(s, wf) ==
    /\ RunTaskEntry(s) # "ok"
    /\ sent' = << >>
    /\ threw' = TRUE
    /\ DriverIdle
    /\ StreamIdle
    /\ UNCHANGED <<sessions, records, socks, call, run>>

\* Variant: the status of the last record made for the id
GetSessionStatus_Last(s) ==
    IF \A r \in RecIds : records[r].sid # s THEN [exists |-> FALSE]
    ELSE [exists |-> TRUE, connected |-> TRUE, hasSettings |-> FALSE]

\* getSessionStatus(sessionId)
GetSessionStatus(s) ==
    IF ~Found(s) THEN [exists |-> FALSE]
    ELSE [exists |-> TRUE,
          connected |-> Session(s).socket # 0,
          hasSettings |-> Session(s).settings.present]

\* What getOrCloneRepo returns: a status with the path and prepared true,
\* or with the path, prepared false and the error
RepoStatuses == {"prepared", "failed"}

\* session.workspace = repoStatus.path; session.repoStatus = repoStatus
WriteRepo(rec, status) ==
    [rec EXCEPT !.workspace = "path", !.repoStatus = status]

\* Variant: the instructions do not depend on the preparation's status
RepoInstructions_Ready(status) == "ready"

\* repoInstructions: the prepared text, or the one that tells the agent to
\* prepare the repository itself
RepoInstructions(status) ==
    IF status = "prepared" THEN "ready" ELSE "selfPrepare"

\* session.interruptQueue = []; session.<wf>FilePath = path;
\* session.<wf>Completed = false
WriteFields(rec, wf) ==
    IF wf = "questions"
    THEN [rec EXCEPT !.interruptQueue = << >>, !.questionsFilePath = TRUE,
                     !.questionsCompleted = FALSE]
    ELSE [rec EXCEPT !.interruptQueue = << >>, !.actionsFilePath = TRUE,
                     !.actionsCompleted = FALSE]

\* The history of a record whose queue was replaced by an empty one: what
\* was still queued will not be delivered
QueueDropped(h) == [h EXCEPT !.accepted = h.delivered]

\* The rest of the preparation, from the end of the settings wait to the
\* call of query(): the repository status is stored, the fields of the
\* held record are (re)initialised, the client is told
Continue(s, status, waits, warned) ==
    /\ records' = [records EXCEPT ![run[s].rec] =
                      WriteFields(WriteRepo(@, status), run[s].wf)]
    /\ hist' = [hist EXCEPT ![run[s].rec] = QueueDropped(@)]
    /\ sent' = SendProgress(s, "progress", "Starting Claude agent")
    /\ threw' = FALSE
    /\ run' = [run EXCEPT ![s].pc = "query",
                          ![s].waits = waits,
                          ![s].warned = warned,
                          ![s].instructions = RepoInstructions(status)]
    /\ relay' = [relay EXCEPT ![s] = FreshRelay]
    /\ UNCHANGED mon
    /\ UNCHANGED <<sessions, socks, call, driver, files>>

\* The continuation with the repository prepared, after a settings wait
\* of any length (its polls are not counted here)
RunTaskResume(s) ==
    /\ run[s].pc = "suspended"
    /\ Continue(s, "prepared", 0, FALSE)

\* The preparation throws before query() starts: getOrCloneRepo rejects
\* (nothing written yet), or the tracking file cannot be read (the fields
\* are written already).  Nothing is sent to the client.
RunTaskFails(s, written) ==
    /\ run[s].pc = "suspended"
    /\ records' = IF written
                  THEN [records EXCEPT ![run[s].rec] =
                           WriteFields(WriteRepo(@, "prepared"), run[s].wf)]
                  ELSE records
    /\ hist' = IF written
               THEN [hist EXCEPT ![run[s].rec] = QueueDropped(@)]
               ELSE hist
    /\ sent' = << >>
    /\ threw' = TRUE
    /\ run' = [run EXCEPT ![s] = Returned(@)]
    /\ StreamIdle
    /\ UNCHANGED <<sessions, socks, call, driver, files>>

\* while (!session.settings && waitCount < 50): the polls of one wait
SettingsPolls == 50

\* The wait for the settings is over: the held record has settings, or the
\* 50th wait has been made
WaitOver_NoLimit(s) == records[run[s].rec].settings.present

WaitOver(s) ==
    \/ records[run[s].rec].settings.present
    \/ run[s].waits >= SettingsPolls

\* A 100 ms timer of the settings wait fires, waitCount++, and the loop
\* goes round: another wait begins
SettingsPoll(s) ==
    /\ run[s].pc = "suspended"
    /\ ~WaitOver(s)
    /\ run' = [run EXCEPT ![s].waits = @ + 1]
    /\ Quiet
    /\ DriverIdle
    /\ StreamIdle
    /\ UNCHANGED <<sessions, records, socks, call>>

\* The wait is over and runTask goes on, warning if the held record still
\* has no settings; getOrCloneRepo returns a status, prepared or not
RunTaskProceed(s, status) ==
    /\ run[s].pc = "suspended"
    /\ WaitOver(s)
    /\ Continue(s, status, run[s].waits,
                ~records[run[s].rec].settings.present)

\* The wait is over and the preparation throws
RunTaskThrows(s, written) ==
    /\ run[s].pc = "suspended"
    /\ WaitOver(s)
    /\ RunTaskFails(s, written)

\* The event stream ends (complete) or raises (error, then re-thrown)
RunTaskEnd(s, ok) ==
    /\ run[s].pc = "query"
    /\ sent' = SendProgress(s, IF ok THEN "complete" ELSE "error", "-")
    /\ threw' = ~ok
    /\ run' = [run EXCEPT ![s] = Returned(@)]
    /\ DriverIdle
    /\ StreamIdle
    /\ UNCHANGED <<sessions, records, socks, call>>

\* The canUseTool option each workflow hands to query()
CallerDenies(wf, tool) == wf = "questions" /\ tool \notin ManagedTools

ToolUse(s, tool, input) ==
    /\ run[s].pc = "query"
    /\ NextCall # 0
    /\ LET c == NextCall
           cr == [FreshCall EXCEPT !.sid = s, !.tool = tool,
                                   !.input = input]
       IN IF CallerDenies(run[s].wf, tool)
          THEN /\ call' = [call EXCEPT ![c] = Resolve(cr, NotAllowedDeny, "caller")]
               /\ Quiet
               /\ UNCHANGED records
          ELSE CanUseTool(c, cr)
    /\ DriverIdle
    /\ StreamIdle
    /\ UNCHANGED <<sessions, socks, run>>

(***************************************************************************)
(* The message generator (createMessageGenerator) and the tracking files   *)
(***************************************************************************)
\* checkQuestionsAnswered / checkActionsCompleted on the file as it stands
CheckQuestionsAnswered(f) == f = "complete"
CheckActionsCompleted(f) == f = "complete"

\* Variant: no initial message
FirstYield_None(wf) == << >>

\* The first yield: the initial prompt
FirstYield(wf) == << UserMessage(InitialPrompt(wf)) >>

\* Variant: the newest interrupt is taken
Front_Newest(queue) == queue[Len(queue)]

\* Variant: the interrupt is read but stays in the queue
Shifted_Keep(queue) == queue

\* interruptQueue.shift(): the element returned and the queue left
Front(queue) == Head(queue)
Shifted(queue) == Tail(queue)

\* Variant: the completion also aborts the session
MarkCompleted_Abort(rec, wf) ==
    IF wf = "questions"
    THEN [rec EXCEPT !.questionsCompleted = TRUE, !.aborted = TRUE]
    ELSE [rec EXCEPT !.actionsCompleted = TRUE, !.aborted = TRUE]

\* session.questionsCompleted = true / session.actionsCompleted = true
MarkCompleted(rec, wf) ==
    IF wf = "questions"
    THEN [rec EXCEPT !.questionsCompleted = TRUE]
    ELSE [rec EXCEPT !.actionsCompleted = TRUE]

\* Variant: the while condition does not test the abort signal
LoopDecision_NoAbort(rec) ==
    IF rec = 0 THEN "nosession"
    ELSE IF /\ records[rec].questionsFilePath
            /\ ~records[rec].questionsCompleted
            /\ CheckQuestionsAnswered(files["questions"]) THEN "questions"
    ELSE IF /\ records[rec].actionsFilePath
            /\ ~records[rec].actionsCompleted
            /\ CheckActionsCompleted(files["actions"]) THEN "actions"
    ELSE IF Len(records[rec].interruptQueue) > 0 THEN "interrupt"
    ELSE "wait"

\* Variant: the completed flags are never consulted
LoopDecision_NoFlag(rec) ==
    IF rec = 0 THEN "nosession"
    ELSE IF records[rec].aborted THEN "aborted"
    ELSE IF /\ records[rec].questionsFilePath
            /\ CheckQuestionsAnswered(files["questions"]) THEN "questions"
    ELSE IF /\ records[rec].actionsFilePath
            /\ CheckActionsCompleted(files["actions"]) THEN "actions"
    ELSE IF Len(records[rec].interruptQueue) > 0 THEN "interrupt"
    ELSE "wait"

\* What one pass of the while loop finds, in the order of its checks
LoopDecision(rec) ==
    IF rec = 0 THEN "nosession"
    ELSE IF records[rec].aborted THEN "aborted"
    ELSE IF /\ records[rec].questionsFilePath
            /\ ~records[rec].questionsCompleted
            /\ CheckQuestionsAnswered(files["questions"]) THEN "questions"
    ELSE IF /\ records[rec].actionsFilePath
            /\ ~records[rec].actionsCompleted
            /\ CheckActionsCompleted(files["actions"]) THEN "actions"
    ELSE IF Len(records[rec].interruptQueue) > 0 THEN "interrupt"
    ELSE "wait"

\* The generator d runs from the head of its while loop to where it next
\* suspends (a yield or the 500 ms wait) or returns
LoopIteration(d) ==
    LET rec == driver[d].rec
        dec == LoopDecision(rec)
    IN
    IF dec \in {"nosession", "aborted"} THEN
        /\ driver' = [driver EXCEPT ![d].state = "done", ![d].exit = dec]
        /\ UNCHANGED <<records, hist>>
    ELSE IF dec \in Workflows THEN
        /\ records' = [records EXCEPT ![rec] = MarkCompleted(@, dec)]
        /\ driver' = [driver EXCEPT ![d].state = "done", ![d].exit = dec]
        /\ UNCHANGED hist
    ELSE IF dec = "interrupt" THEN
        /\ records' = [records EXCEPT ![rec].interruptQueue = Shifted(@)]
        /\ driver' = [driver EXCEPT
                         ![d].state = "yielded",
                         ![d].passes = Count(@),
                         ![d].out = Append(@, UserMessage(
                                        Front(records[rec].interruptQueue)))]
        /\ hist' = [hist EXCEPT ![rec].delivered =
                       Append(@, Front(records[rec].interruptQueue))]
    ELSE
        /\ driver' = [driver EXCEPT ![d].state = "waiting",
                                    ![d].passes = Count(@),
                                    ![d].waits = Count(@)]
        /\ UNCHANGED <<records, hist>>

\* The agent SDK asks the generator of the run on s for its first message:
\* the body starts, looks the session up and yields the initial prompt
DriverStart(s) ==
    /\ run[s].pc = "query"
    /\ run[s].driver = 0
    /\ NextDrv # 0
    /\ driver' = [driver EXCEPT ![NextDrv] =
                     [FreshDriver EXCEPT !.state = "primed", !.sid = s,
                                         !.wf = run[s].wf, !.rec = sessions[s],
                                         !.runrec = run[s].rec,
                                         !.out = FirstYield(run[s].wf)]]
    /\ run' = [run EXCEPT ![s].driver = NextDrv]
    /\ Quiet
    /\ StreamIdle
    /\ UNCHANGED <<sessions, records, socks, call, files, hist>>

\* The consumer (the query of the run, while it lasts) asks for the next
\* message while the generator is suspended at a yield: after the initial
\* prompt the loop is entered, after an interrupt the 500 ms wait begins
DriverNext(d) ==
    /\ driver[d].state \in {"primed", "yielded"}
    /\ run[driver[d].sid].driver = d
    /\ IF driver[d].state = "primed"
       THEN LoopIteration(d)
       ELSE /\ driver' = [driver EXCEPT ![d].state = "waiting",
                                        ![d].waits = Count(@)]
            /\ UNCHANGED <<records, hist>>
    /\ Quiet
    /\ StreamIdle
    /\ UNCHANGED <<sessions, socks, call, run, files>>

\* The 500 ms timer fires: back to the head of the loop
DriverWake(d) ==
    /\ driver[d].state = "waiting"
    /\ LoopIteration(d)
    /\ Quiet
    /\ StreamIdle
    /\ UNCHANGED <<sessions, socks, call, run, files>>

\* The tracking file of a workflow is edited (by the agent's Write / Edit
\* tools or by hand): its work items become all filled in, or not
FileStates == {"pending", "complete"}

FileChange(wf, v) ==
    /\ files[wf] # v
    /\ files' = [files EXCEPT ![wf] = v]
    /\ Quiet
    /\ StreamIdle
    /\ UNCHANGED <<sessions, records, socks, call, run, driver, hist>>

(***************************************************************************)
(* The completion checks on the text of a tracking file                    *)
(* (checkQuestionsAnswered, checkActionsCompleted)                         *)
(***************************************************************************)
\* A file's text is a sequence of tokens.  "H" is a heading the split
\* pattern matches ("## Question 1" / "## Action 1"), "Q" the work-item
\* marker ("**QUESTION:**" / "**ACTION:**"), "A" the field label
\* ("**ANSWER:**" / "**SUMMARY:**"), "S" the line "---" that closes a work
\* item.  Text: "w9" nine letters, "x" one letter, "sp" white space, "u" an
\* underscore, "F" the text "[Claude, please fill in", "G" the text
\* "[Action summary pending]_", "-" a hyphen, "#" a hash sign.
TextTokens == {"w9", "x", "sp", "u", "F", "G", "-", "#"}

\* Characters of a token
Width(tok) ==
    CASE tok = "w9" -> 9
      [] tok = "F" -> 23
      [] tok = "G" -> 25
      [] tok = "S" -> 3
      [] tok \in {"H", "Q", "A"} -> 11
      [] tok = "J" -> 150
      [] OTHER -> 1

\* Tokens that begin with a character outside the class [^#-]
StopTokens == {"-", "#", "S", "H"}

\* answer.length < 10
MinLength == 10

Max(S) == CHOOSE x \in S : \A y \in S : y <= x

RECURSIVE TextLength(_)
TextLength(text) ==
    IF text = << >> THEN 0 ELSE Width(Head(text)) + TextLength(Tail(text))

\* content.split(/##\s+Question\s+\d+/): the chunks between the headings,
\* the one before the first heading included
RECURSIVE SplitAt(_, _)
SplitAt(text, h) ==
    IF text = << >> THEN << << >> >>
    ELSE LET rest == SplitAt(Tail(text), h) IN
         IF Head(text) = h THEN << << >> >> \o rest
         ELSE << << Head(text) >> \o rest[1] >> \o Tail(rest)

\* text.trim()
Trim(text) ==
    LET inked == {i \in 1..Len(text) : text[i] # "sp"} IN
    IF inked = {} THEN << >> ELSE SubSeq(text, Min(inked), Max(inked))

\* text.includes(tok)
Includes(text, tok) == \E i \in 1..Len(text) : text[i] = tok

\* block.match(/\*\*ANSWER:\*\*\s*([^#-]*)/s): whether the label occurs, and
\* the text from the first label up to the first '#' or '-'
MatchField(block) ==
    LET at == {i \in 1..Len(block) : block[i] = "A"} IN
    IF at = {} THEN [found |-> FALSE, text |-> << >>]
    ELSE LET after == SubSeq(block, Min(at) + 1, Len(block))
             stops == {j \in 1..Len(after) : after[j] \in StopTokens}
         IN [found |-> TRUE,
             text |-> SubSeq(after, 1, IF stops = {} THEN Len(after)
                                        ELSE Min(stops) - 1)]

\* answer.startsWith('_[')
StartsWithBracket(text) ==
    Len(text) >= 2 /\ text[1] = "u" /\ text[2] \in {"F", "G"}

\* summary.includes('_[Action summary pending]_')
IncludesPending(text) ==
    \E i \in 1..(Len(text) - 1) : text[i] = "u" /\ text[i + 1] = "G"

\* answer.length < 10 || answer.includes('[Claude, please fill in') || ...
IsPlaceholderOrShort(wf, answer) ==
    \/ TextLength(answer) < MinLength
    \/ Includes(answer, "F")
    \/ wf = "actions" /\ IncludesPending(answer)
    \/ StartsWithBracket(answer)

\* One pass of the for loop: FALSE when the pass returns false
BlockPasses(wf, block) ==
    IF Trim(block) = << >> THEN TRUE
    ELSE IF ~Includes(block, "Q") THEN TRUE
    ELSE LET m == MatchField(block) IN
         /\ m.found
         /\ ~IsPlaceholderOrShort(wf, Trim(m.text))

\* The catch block: the error is logged and false returned
OnError_Rethrow(wf) == [result |-> FALSE, raised |-> TRUE]

OnError(wf) == [result |-> FALSE, raised |-> FALSE]

\* checkQuestionsAnswered(filePath) / checkActionsCompleted(filePath) on a
\* file that is missing, cannot be read, or holds the given text: the value
\* returned and whether the call raised
CheckFile(wf, status, content) ==
    IF status = "missing" THEN [result |-> FALSE, raised |-> FALSE]
    ELSE IF status = "unreadable" THEN OnError(wf)
    ELSE LET blocks == SplitAt(content, "H") IN
         [result |-> \A i \in 1..Len(blocks) : BlockPasses(wf, blocks[i]),
          raised |-> FALSE]

\* The pass of the generator's loop that checks the file of its workflow
\* (the session is registered, not aborted, the path stored and the flag
\* unset): the check is made, and the loop ends if it reports completion
MonitorTick ==
    /\ mon.pc = "idle"
    /\ mon.wf \in Workflows
    /\ LET r == CheckFile(mon.wf, mon.status, mon.content) IN
       mon' = [mon EXCEPT !.pc = "checked", !.result = r.result,
                          !.raised = r.raised,
                          !.loop = IF r.raised THEN "crashed"
                                   ELSE IF r.result THEN "ended"
                                   ELSE "polling"]
    /\ Quiet
    /\ DriverIdle
    /\ UNCHANGED <<sessions, records, socks, call, run, relay>>

\* The texts a tracking file may hold: nothing, or the preamble followed by
\* work items, each a heading, the marker or not, the label with the text
\* of its field or not, and the closing line
MaxBlocks == 2
MaxAnswer == 2

FieldTexts == UNION {[1..n -> TextTokens] : n \in 0..MaxAnswer}

BlockTexts ==
    {<< "H" >> \o q \o a \o << "S" >> :
        q \in {<< >>, << "Q" >>},
        a \in {<< >>} \cup {<< "A" >> \o f : f \in FieldTexts}}

Preamble == << "#", "x", "sp", "S", "sp" >>

RECURSIVE FileTexts(_)
FileTexts(n) ==
    IF n = 0 THEN {<< >>, Preamble}
    ELSE FileTexts(n - 1) \cup
         {f \o b : f \in FileTexts(n - 1) \ {<< >>}, b \in BlockTexts}

(***************************************************************************)
(* Event relay: the loop over the agent's stream in runTask                *)
(***************************************************************************)
\* Texts are sequences of tokens.  Text deltas: "a", "b" one letter each,
\* "sp" white space.  Fragments of a tool input: "{" and "}" the braces of
\* an object, "J" a member of 150 characters.
TextDeltas == { <<"a">>, <<"b">>, <<"sp">> }
JsonDeltas == { <<"{">>, <<"}">>, <<"J">> }
BlockTypes == {"text", "tool_use", "thinking"}

\* The stream of one run: blocks started, deltas of one block
MaxStream == 3
MaxDeltas == 2

\* The buffered inputs JSON.parse accepts
ParsesAsJson(text) == text \in { <<"{", "}">>, <<"{", "J", "}">> }

\* JSON.stringify(parsedInput, null, 2): members on lines of their own,
\* indented by two spaces
Stringify(text) ==
    IF text = <<"{", "J", "}">>
    THEN <<"{", "nl", "sp", "sp", "J", "sp", "nl", "}">>
    ELSE text

\* inputPreview.substring(0, 150)
PreviewLimit == 150

\* text.substring(0, n): the tokens that fit, then "part" for the beginning
\* of a token the cut falls into
RECURSIVE Substring(_, _)
Substring(text, n) ==
    IF text = << >> \/ n = 0 THEN << >>
    ELSE IF Width(Head(text)) > n THEN << "part" >>
    ELSE << Head(text) >> \o Substring(Tail(text), n - Width(Head(text)))

\* Variant: the catch sends the whole buffer
ToolPreview_NoCut(name, input) ==
    IF ParsesAsJson(input)
    THEN LET inputPreview == Stringify(input) IN
         << name >> \o Substring(inputPreview, PreviewLimit)
                  \o (IF TextLength(inputPreview) > PreviewLimit
                      THEN << "..." >> ELSE << >>)
    ELSE << name >> \o input \o << "..." >>

\* The message of the tool-input preview: the parsed input printed again
\* and cut, or in the catch the raw buffer cut, with '...'
ToolPreview(name, input) ==
    IF ParsesAsJson(input)
    THEN LET inputPreview == Stringify(input) IN
         << name >> \o Substring(inputPreview, PreviewLimit)
                  \o (IF TextLength(inputPreview) > PreviewLimit
                      THEN << "..." >> ELSE << >>)
    ELSE << name >> \o Substring(input, PreviewLimit) \o << "..." >>

\* if (currentThinkingText.trim())
HasThinking(text) == Trim(text) # << >>

\* Variant: the buffer is kept after it was sent
Flushed_Keep(text) == text

\* currentThinkingText = '' after sendProgress(..., 'thinking')
Flushed(text) == IF HasThinking(text) THEN << >> ELSE text

\* A message whose text is a sequence of tokens
StreamMsg(k, type, body) ==
    [sock |-> k, type |-> type, req |-> 0, text |-> "-", body |-> body]

\* sendProgress(sessionId, currentThinkingText, 'thinking') under its test
FlushThinking(s, text) ==
    IF HasThinking(text) /\ Found(s) /\ Session(s).socket # 0
    THEN << StreamMsg(Session(s).socket, "thinking", text) >>
    ELSE << >>

\* The loop is consuming the stream of the run of session id s
Streaming(s) == run[s].pc = "query"

RelayStep ==
    /\ threw' = FALSE
    /\ DriverIdle
    /\ UNCHANGED <<sessions, records, socks, call, run, mon>>

\* stream_event content_block_start: pending text is sent, then the locals
\* are set for the block's type
BlockStart(s, type, name) ==
    /\ Streaming(s)
    /\ relay[s].blocks < MaxStream
    /\ sent' = FlushThinking(s, relay[s].currentThinkingText)
    /\ relay' = [relay EXCEPT ![s] = [@ EXCEPT
                   !.currentThinkingText =
                       IF type = "text" THEN << >> ELSE Flushed(@),
                   !.currentToolName = IF type = "tool_use" THEN name ELSE @,
                   !.currentToolInput = IF type = "tool_use" THEN << >> ELSE @,
                   !.block = type,
                   !.deltas = << >>,
                   !.blocks = @ + 1]]
    /\ RelayStep

\* stream_event content_block_delta with a text_delta
TextDelta(s, text) ==
    /\ Streaming(s)
    /\ relay[s].block = "text"
    /\ Len(relay[s].deltas) < MaxDeltas
    /\ relay' = [relay EXCEPT ![s] = [@ EXCEPT !.currentThinkingText = @ \o text,
                              !.deltas = @ \o text]]
    /\ sent' = << >>
    /\ RelayStep

\* stream_event content_block_delta with an input_json_delta
InputDelta(s, partial_json) ==
    /\ Streaming(s)
    /\ relay[s].block = "tool_use"
    /\ Len(relay[s].deltas) < MaxDeltas + 1
    /\ relay' = [relay EXCEPT ![s] = [@ EXCEPT !.currentToolInput = @ \o partial_json,
                              !.deltas = @ \o partial_json]]
    /\ sent' = << >>
    /\ RelayStep

\* stream_event content_block_stop: pending text is sent; with a tool name
\* and a buffered input the preview goes to the socket of the session found
\* at the top of the iteration, and both are reset
BlockStop(s) ==
    /\ Streaming(s)
    /\ relay[s].block # "none"
    /\ LET preview == relay[s].currentToolName # "null"
                      /\ relay[s].currentToolInput # << >>
       IN
       /\ sent' = FlushThinking(s, relay[s].currentThinkingText)
                  \o (IF preview /\ Found(s) /\ Session(s).socket # 0
                      THEN << StreamMsg(Session(s).socket, "progress",
                                        ToolPreview(relay[s].currentToolName,
                                                    relay[s].currentToolInput)) >>
                      ELSE << >>)
       /\ relay' = [relay EXCEPT ![s] = [@ EXCEPT
                      !.currentThinkingText = Flushed(@),
                      !.currentToolName = IF preview THEN "null" ELSE @,
                      !.currentToolInput = IF preview THEN << >> ELSE @,
                      !.block = "none",
                      !.deltas = << >>]]
    /\ RelayStep

(***************************************************************************)
(* Specification                                                           *)
(***************************************************************************)
\* The permission protocol: registry, sockets, gate, timers and agent runs
Next ==
    \/ \E s \in SessionIds : CreateSession(s)
    \/ \E s \in SessionIds : Connect(s)
    \/ \E k \in SockIds : SocketClose(k)
    \/ \E k \in SockIds, v \in SettingsValues : MsgSettings(k, v)
    \/ \E k \in SockIds : MsgStop(k)
    \/ \E k \in SockIds, q \in CallIds, res \in ClientResults :
          MsgPermissionResponse(k, q, res)
    \/ \E k \in SockIds : MsgPing(k)
    \/ \E c \in CallIds : PermissionTimeout(c)
    \/ \E s \in SessionIds, wf \in Workflows : RunTaskBegin(s, wf)
    \/ \E s \in SessionIds : RunTaskResume(s)
    \/ \E s \in SessionIds, written \in BOOLEAN : RunTaskFails(s, written)
    \/ \E s \in SessionIds, ok \in BOOLEAN : RunTaskEnd(s, ok)
    \/ \E s \in SessionIds, t \in ToolNames, i \in AgentInputs : ToolUse(s, t, i)

Spec == Init /\ [][Next]_vars

\* The same with the client's interrupt messages
NextWithInterrupts ==
    \/ Next
    \/ \E k \in SockIds, m \in Texts : MsgInterrupt(k, m)

SpecWithInterrupts == Init /\ [][NextWithInterrupts]_vars

\* The timers the runtime has armed do fire
FairSpec == Spec /\ \A c \in CallIds : WF_vars(PermissionTimeout(c))

\* The registry side: connections, teardowns, and the operations that look
\* a session up by id (runTask, the gate, interrupts)
TeardownNext ==
    \/ \E s \in SessionIds : Connect(s)
    \/ \E k \in SockIds : SocketClose(k)
    \/ \E k \in SockIds : MsgStop(k)
    \/ \E k \in SockIds, m \in Texts : MsgInterrupt(k, m)
    \/ \E s \in SessionIds, wf \in Workflows : RunTaskBegin(s, wf)
    \/ \E s \in SessionIds, wf \in Workflows : RunTaskRejected(s, wf)
    \/ \E s \in SessionIds : RunTaskResume(s)
    \/ \E s \in SessionIds, tl \in ToolNames, i \in AgentInputs : ToolUse(s, tl, i)

TeardownSpec == Init /\ [][TeardownNext]_vars

\* The conversation side: agent runs, their generators, the client's
\* interrupts and the tracking files, from the moment the client of each
\* session id has connected
DriverInit ==
    /\ sessions = [s \in SessionIds |-> s]
    /\ records = [r \in RecIds |->
                     IF r \in SessionIds
                     THEN [FreshRecord EXCEPT !.sid = r, !.socket = r]
                     ELSE FreshRecord]
    /\ socks = [k \in SockIds |->
                   IF k \in SessionIds THEN [sid |-> k, state |-> "open"]
                   ELSE [sid |-> 0, state |-> "unused"]]
    /\ call = [c \in CallIds |-> FreshCall]
    /\ run = [s \in SessionIds |-> NoRun]
    /\ sent = << Msg(NumSessionIds, "connected", 0, "-") >>
    /\ threw = FALSE
    /\ driver = [d \in DrvIds |-> FreshDriver]
    /\ files = [wf \in Workflows |-> "pending"]
    /\ hist = [r \in RecIds |-> NoHistory]
    /\ mon = NoMonitor
    /\ relay = [s \in SessionIds |-> FreshRelay]

DriverNextStep ==
    \/ \E k \in SockIds : SocketClose(k)
    \/ \E k \in SockIds : MsgStop(k)
    \/ \E k \in SockIds, m \in Texts : MsgInterrupt(k, m)
    \/ \E s \in SessionIds, wf \in Workflows : RunTaskBegin(s, wf)
    \/ \E s \in SessionIds : RunTaskResume(s)
    \/ \E s \in SessionIds, ok \in BOOLEAN : RunTaskEnd(s, ok)
    \/ \E s \in SessionIds : DriverStart(s)
    \/ \E d \in DrvIds : DriverNext(d)
    \/ \E d \in DrvIds : DriverWake(d)
    \/ \E wf \in Workflows, v \in FileStates : FileChange(wf, v)

DriverSpec == DriverInit /\ [][DriverNextStep]_vars

\* The 500 ms timer a generator has set does fire
DriverFairSpec == DriverSpec /\ \A d \in DrvIds : WF_vars(DriverWake(d))

\* A run with its tool uses: the generator next to the permission requests
\* of the same session
CompletionNext ==
    \/ \E k \in SockIds, m \in Texts : MsgInterrupt(k, m)
    \/ \E s \in SessionIds, wf \in Workflows : RunTaskBegin(s, wf)
    \/ \E s \in SessionIds : RunTaskResume(s)
    \/ \E s \in SessionIds, ok \in BOOLEAN : RunTaskEnd(s, ok)
    \/ \E s \in SessionIds, tl \in ToolNames, i \in AgentInputs : ToolUse(s, tl, i)
    \/ \E s \in SessionIds : DriverStart(s)
    \/ \E d \in DrvIds : DriverNext(d)
    \/ \E d \in DrvIds : DriverWake(d)
    \/ \E wf \in Workflows, v \in FileStates : FileChange(wf, v)

CompletionSpec == DriverInit /\ [][CompletionNext]_vars

\* The registry side with the client's settings messages
BindNext ==
    \/ \E s \in SessionIds : Connect(s)
    \/ \E k \in SockIds : SocketClose(k)
    \/ \E k \in SockIds, v \in SettingsValues : MsgSettings(k, v)
    \/ \E k \in SockIds : MsgStop(k)
    \/ \E k \in SockIds, m \in Texts : MsgInterrupt(k, m)
    \/ \E s \in SessionIds, wf \in Workflows : RunTaskBegin(s, wf)
    \/ \E s \in SessionIds, wf \in Workflows : RunTaskRejected(s, wf)
    \/ \E s \in SessionIds : RunTaskResume(s)
    \/ \E s \in SessionIds, tl \in ToolNames, i \in AgentInputs : ToolUse(s, tl, i)

BindSpec == Init /\ [][BindNext]_vars

\* runTask from its entry checks to the agent run: the settings wait poll
\* by poll, the repository status, the start of query()
PreparationNext ==
    \/ \E s \in SessionIds : Connect(s)
    \/ \E k \in SockIds : SocketClose(k)
    \/ \E k \in SockIds, v \in SettingsValues : MsgSettings(k, v)
    \/ \E s \in SessionIds, wf \in Workflows : RunTaskBegin(s, wf)
    \/ \E s \in SessionIds, wf \in Workflows : RunTaskRejected(s, wf)
    \/ \E s \in SessionIds : SettingsPoll(s)
    \/ \E s \in SessionIds, st \in RepoStatuses : RunTaskProceed(s, st)
    \/ \E s \in SessionIds, written \in BOOLEAN : RunTaskThrows(s, written)
    \/ \E s \in SessionIds, ok \in BOOLEAN : RunTaskEnd(s, ok)
    \/ \E s \in SessionIds, tl \in ToolNames, i \in AgentInputs : ToolUse(s, tl, i)

PreparationSpec == Init /\ [][PreparationNext]_vars

\* The failures of one run next to the two teardowns: the settings wait
\* running out, the repository preparation failing, a permission request
\* denied or timed out, with the client's interrupts, stop and close
PropagationNext ==
    \/ \E k \in SockIds : SocketClose(k)
    \/ \E k \in SockIds : MsgStop(k)
    \/ \E k \in SockIds, m \in Texts : MsgInterrupt(k, m)
    \/ \E k \in SockIds, q \in CallIds, res \in ClientResults :
          MsgPermissionResponse(k, q, res)
    \/ \E c \in CallIds : PermissionTimeout(c)
    \/ \E s \in SessionIds, wf \in Workflows : RunTaskBegin(s, wf)
    \/ \E s \in SessionIds : SettingsPoll(s)
    \/ \E s \in SessionIds, st \in RepoStatuses : RunTaskProceed(s, st)
    \/ \E s \in SessionIds, written \in BOOLEAN : RunTaskThrows(s, written)
    \/ \E s \in SessionIds, ok \in BOOLEAN : RunTaskEnd(s, ok)
    \/ \E s \in SessionIds, tl \in ToolNames, i \in AgentInputs : ToolUse(s, tl, i)

PropagationSpec == DriverInit /\ [][PropagationNext]_vars

\* The calls of runTask next to everything that makes, binds and removes
\* the record they look up
EntryNext ==
    \/ \E s \in SessionIds : CreateSession(s)
    \/ \E s \in SessionIds : Connect(s)
    \/ \E k \in SockIds : SocketClose(k)
    \/ \E k \in SockIds : MsgStop(k)
    \/ \E s \in SessionIds, wf \in Workflows : RunTaskBegin(s, wf)
    \/ \E s \in SessionIds, wf \in Workflows : RunTaskRejected(s, wf)
    \/ \E s \in SessionIds : RunTaskResume(s)
    \/ \E s \in SessionIds, ok \in BOOLEAN : RunTaskEnd(s, ok)
    \/ \E s \in SessionIds, tl \in ToolNames, i \in AgentInputs : ToolUse(s, tl, i)

EntrySpec == Init /\ [][EntryNext]_vars

\* A run whose permission requests the user answers with 'Always Allow',
\* next to the other settings messages, the stop and the close
DialogNext ==
    \/ \E s \in SessionIds : Connect(s)
    \/ \E k \in SockIds : SocketClose(k)
    \/ \E k \in SockIds : MsgStop(k)
    \/ \E k \in SockIds, v \in SettingsValues : MsgSettings(k, v)
    \/ \E c \in CallIds : PermissionTimeout(c)
    \/ \E s \in SessionIds, wf \in Workflows : RunTaskBegin(s, wf)
    \/ \E s \in SessionIds : RunTaskResume(s)
    \/ \E s \in SessionIds, tl \in ToolNames, i \in AgentInputs : ToolUse(s, tl, i)
    \/ \E k \in SockIds, c \in CallIds, stored \in ClientStored :
          DialogSettings(k, c, stored)
    \/ \E c \in CallIds : DialogResponse(c)

DialogSpec == Init /\ [][DialogNext]_vars

\* The event loop of a run, with the stop and the close that may come while
\* the stream is consumed
RelayNext ==
    \/ \E k \in SockIds : SocketClose(k)
    \/ \E k \in SockIds : MsgStop(k)
    \/ \E s \in SessionIds, wf \in Workflows : RunTaskBegin(s, wf)
    \/ \E s \in SessionIds : RunTaskResume(s)
    \/ \E s \in SessionIds, ok \in BOOLEAN : RunTaskEnd(s, ok)
    \/ \E s \in SessionIds, ty \in BlockTypes, tl \in ToolNames :
          BlockStart(s, ty, tl)
    \/ \E s \in SessionIds, d \in TextDeltas : TextDelta(s, d)
    \/ \E s \in SessionIds, j \in JsonDeltas : InputDelta(s, j)
    \/ \E s \in SessionIds : BlockStop(s)

RelaySpec == DriverInit /\ [][RelayNext]_vars

\* The completion checks as functions of the file: every workflow, every
\* way the file can be absent or unreadable, every text within the bounds
MonitorInit ==
    /\ sessions = [s \in SessionIds |-> 0]
    /\ records = [r \in RecIds |-> FreshRecord]
    /\ socks = [k \in SockIds |-> [sid |-> 0, state |-> "unused"]]
    /\ call = [c \in CallIds |-> FreshCall]
    /\ run = [s \in SessionIds |-> NoRun]
    /\ sent = << >>
    /\ threw = FALSE
    /\ driver = [d \in DrvIds |-> FreshDriver]
    /\ files = [wf \in Workflows |-> "pending"]
    /\ hist = [r \in RecIds |-> NoHistory]
    /\ relay = [s \in SessionIds |-> FreshRelay]
    /\ \E wf \in Workflows :
          \/ \E st \in {"missing", "unreadable"} :
                mon = [NoMonitor EXCEPT !.wf = wf, !.status = st]
          \/ \E text \in FileTexts(MaxBlocks) :
                mon = [NoMonitor EXCEPT !.wf = wf, !.status = "present",
                                        !.content = text]

MonitorSpec == MonitorInit /\ [][MonitorTick]_vars

(***************************************************************************)
(* The gate on its own inputs.  canUseTool is a function of the registry   *)
(* and its arguments; its callers only pass the session id of a run, whose *)
(* record always has a socket, so the branch for a missing socket is       *)
(* exercised here by drawing the session record from the records the       *)
(* registry can hold: absent, or present with or without a socket and with *)
(* or without settings.                                                    *)
(***************************************************************************)
GateInit ==
    \E reg \in [SessionIds -> BOOLEAN],
       bound \in [SessionIds -> BOOLEAN],
       st \in [SessionIds -> {NullSettings} \cup SettingsValues] :
        /\ sessions = [s \in SessionIds |-> IF reg[s] THEN s ELSE 0]
        /\ records = [r \in RecIds |->
                         IF r \in SessionIds /\ reg[r]
                         THEN [FreshRecord EXCEPT
                                  !.sid = r,
                                  !.socket = IF bound[r] THEN r ELSE 0,
                                  !.settings = st[r]]
                         ELSE FreshRecord]
        /\ socks = [k \in SockIds |->
                       IF k \in SessionIds /\ reg[k] /\ bound[k]
                       THEN [sid |-> k, state |-> "open"]
                       ELSE [sid |-> 0, state |-> "unused"]]
        /\ call = [c \in CallIds |-> FreshCall]
        /\ run = [s \in SessionIds |-> NoRun]
        /\ sent = << >>
        /\ threw = FALSE
        /\ driver = [d \in DrvIds |-> FreshDriver]
        /\ files = [wf \in Workflows |-> "pending"]
        /\ hist = [r \in RecIds |-> NoHistory]
        /\ mon = NoMonitor
        /\ relay = [s \in SessionIds |-> FreshRelay]

\* canUseTool(sessionId, toolName, input, options), called directly
GateCall(s, tool, input) ==
    /\ NextCall # 0
    /\ CanUseTool(NextCall, [FreshCall EXCEPT !.sid = s, !.tool = tool,
                                              !.input = input])
    /\ DriverIdle
    /\ StreamIdle
    /\ UNCHANGED <<sessions, socks, run>>

GateNext ==
    \/ \E s \in SessionIds, t \in ToolNames, i \in AgentInputs : GateCall(s, t, i)
    \/ \E c \in CallIds : PermissionTimeout(c)
    \/ \E k \in SockIds, q \in CallIds, res \in ClientResults :
          MsgPermissionResponse(k, q, res)
    \/ \E k \in SockIds, v \in SettingsValues : MsgSettings(k, v)
    \/ \E k \in SockIds : SocketClose(k)

GateSpec == GateInit /\ [][GateNext]_vars

(***************************************************************************)
(* Properties                                                              *)
(***************************************************************************)
\* The callback c is made in this step and reaches the gate
GateCalled(c) ==
    call[c].state = "unused" /\ call'[c].state # "unused" /\ call'[c].gate

\* No timer is started, stopped or fired in this step
TimersUnchanged == \A d \in CallIds : call'[d].timer = call[d].timer

\* The abort signal of some record made for session id s has been triggered
AbortTriggered(s) ==
    \E r \in RecIds : records[r].sid = s /\ records[r].aborted

\* C1: a request that was registered as pending gets one outcome, from the
\* client's response, the timer or the cleanup: its promise is resolved by
\* exactly one resolve() call, and once resolved nothing about it (outcome,
\* resolver, timer) changes again, whatever event comes second or third.
C1_SingleOutcome ==
    [][\A c \in CallIds :
          /\ call[c].state = "resolved" => call'[c] = call[c]
          /\ (call[c].state = "pending" /\ call'[c].state = "resolved")
                => /\ call'[c].by \in {"response", "timeout", "cleanup"}
                   /\ call'[c].outcome # NoResult
          /\ call'[c].resolves <= 1
          /\ call'[c].state = "resolved" => call'[c].resolves = 1]_vars

\* A request the timer resolved, whose session was torn down afterwards
C1_Witness ==
    \E c \in CallIds :
        /\ call[c].by = "timeout"
        /\ call[c].resolves = 1
        /\ records[call[c].rec].aborted
        /\ sessions[call[c].sid] = 0

\* A stop message or a socket close that finds the session
TeardownStep(k) ==
    /\ socks[k].state = "open"
    /\ Found(socks[k].sid)
    /\ MsgStop(k) \/ SocketClose(k)

\* C2: a teardown (stop or socket close) of an existing session sets its
\* abort signal, which is set once and stays set; every request pending at
\* that moment is resolved deny 'Session closed' with its timer cancelled,
\* and a cancelled timer never fires; the session leaves the registry.
C2_Teardown ==
    [][/\ \A k \in SockIds : TeardownStep(k) =>
             LET s == socks[k].sid
                 r == sessions[s]
             IN /\ records'[r].aborted
                /\ records'[r].abortEvents = 1
                /\ \A c \in records[r].pendingPermissions :
                      /\ call'[c].state = "resolved"
                      /\ call'[c].outcome = SessionClosedDeny
                      /\ call'[c].timer = "cleared"
                /\ sessions'[s] = 0
       /\ \A r \in RecIds : records[r].aborted =>
             records'[r].aborted /\ records'[r].abortEvents = 1
       /\ \A c \in CallIds : call[c].timer = "cleared" => call'[c].timer = "cleared"
      ]_vars

\* Two requests were pending on one session when it was torn down
C2_Witness ==
    \E c, d \in CallIds :
        /\ c # d
        /\ call[c].by = "cleanup" /\ call[d].by = "cleanup"
        /\ call[c].rec = call[d].rec
        /\ records[call[c].rec].aborted
        /\ sessions[call[c].sid] = 0

\* C3: once the abort signal of a session id has been triggered, no request
\* made for that id is granted afterwards, by any path, and the requests
\* pending at that moment resolve to deny.
C3_NoGrantAfterAbort ==
    [][\A c \in CallIds :
          /\ (call[c].state # "resolved" /\ call'[c].state = "resolved"
              /\ AbortTriggered(call'[c].sid))
                => call'[c].outcome.behavior # "allow"
          /\ (call[c].state = "pending" /\ ~records[call[c].rec].aborted
              /\ records'[call[c].rec].aborted)
                => call'[c].outcome.behavior = "deny"]_vars

\* C4: a gate call on a session that exists, has a socket and whose settings
\* carry permissions[tool] = true returns allow with the input unchanged in
\* that step, and the step leaves the records (pending maps included)
\* unchanged, starts no timer and sends nothing.
C4_AutoApprove ==
    [][\A c \in CallIds :
          (/\ GateCalled(c)
           /\ Found(call'[c].sid)
           /\ Session(call'[c].sid).socket # 0
           /\ Session(call'[c].sid).settings.perms[call'[c].tool] = "true")
          => /\ call'[c].state = "resolved"
             /\ call'[c].outcome = Allow(call'[c].input)
             /\ records' = records
             /\ TimersUnchanged
             /\ sent' = << >>]_vars

\* An auto-approved call, just made
C4_Witness ==
    \E c \in CallIds :
        /\ call[c].by = "auto"
        /\ call[c].outcome = Allow(call[c].input)
        /\ Found(call[c].sid)
        /\ Session(call[c].sid).settings.perms[call[c].tool] = "true"
        /\ Session(call[c].sid).pendingPermissions = {}

\* C5: every request that is not auto-approved (registered as pending)
\* eventually resolves; one that neither a client response nor a teardown
\* resolves is resolved by its timer, to deny with the timeout message, and
\* right after that step the pending map of its session no longer holds it.
C5_PendingResolves ==
    /\ \A c \in CallIds : (call[c].state = "pending") ~> (call[c].state = "resolved")
    /\ [][\A c \in CallIds :
             (/\ call[c].state = "pending"
              /\ call'[c].state = "resolved"
              /\ call'[c].by \notin {"response", "cleanup"})
             => /\ call[c].timer = "armed"
                /\ call'[c].timer = "fired"
                /\ call'[c].outcome = TimeoutDeny
                /\ c \notin records'[call[c].rec].pendingPermissions]_vars

\* A request that timed out while its session was still registered
C5_Witness ==
    \E c \in CallIds :
        /\ call[c].by = "timeout"
        /\ call[c].outcome = TimeoutDeny
        /\ sessions[call[c].sid] = call[c].rec
        /\ c \notin records[call[c].rec].pendingPermissions

\* A permission_response on socket k that finds the request q pending
ResponseMatches(k, q) ==
    /\ socks[k].state = "open"
    /\ Found(socks[k].sid)
    /\ call[q].state = "pending"
    /\ call[q].rec = sessions[socks[k].sid]

\* C6: a permission_response that matches a pending request resolves it to
\* exactly the result the client sent, deletes the entry and cancels the
\* timer, and a request the client resolved is never turned into a
\* timeout-deny later.
C6_ResponseResolves ==
    [][/\ \A k \in SockIds, q \in CallIds, res \in ClientResults :
             (ResponseMatches(k, q) /\ MsgPermissionResponse(k, q, res))
             => /\ call'[q].state = "resolved"
                /\ call'[q].outcome = res
                /\ call[q].timer = "armed" /\ call'[q].timer = "cleared"
                /\ q \notin records'[call[q].rec].pendingPermissions
       /\ \A c \in CallIds :
             call[c].by = "response"
             => /\ call'[c].outcome = call[c].outcome
                /\ call'[c].timer = "cleared"]_vars

\* The client allowed a request with a modified input
C6_Witness ==
    \E c \in CallIds :
        /\ call[c].by = "response"
        /\ call[c].outcome = Allow("in1")
        /\ call[c].input # "in1"
        /\ call[c].timer = "cleared"
        /\ c \notin records[call[c].rec].pendingPermissions

\* C7: a permission_response whose request id is not pending on the
\* session (unknown id, duplicate, or late after a timeout) changes no
\* state, sends nothing and throws nothing; the recorded outcomes stay.
C7_StaleResponseIgnored ==
    [][(\E k \in SockIds, q \in CallIds, res \in ClientResults :
           /\ socks[k].state = "open"
           /\ ~ResponseMatches(k, q)
           /\ MsgPermissionResponse(k, q, res))
       => /\ UNCHANGED <<sessions, records, socks, call, run>>
          /\ sent' = << >>
          /\ threw' = FALSE]_vars

\* A request already resolved (by a response or its timer) on a session
\* that is still registered with an open socket, and the last step left
\* nothing behind: the state a duplicate or late response is handled in
C7_Witness ==
    \E c \in CallIds, k \in SockIds :
        /\ call[c].by \in {"response", "timeout"}
        /\ socks[k].state = "open"
        /\ sessions[socks[k].sid] = call[c].rec
        /\ sent = << >> /\ threw = FALSE

GateCallLeavesNoTrace(c) ==
    /\ call'[c].state = "resolved"
    /\ call'[c].timer = "none"
    /\ records' = records
    /\ \A d \in CallIds \ {c} : call'[d] = call[d]
    /\ sent' = << >>

\* C9: the gate denies 'Session not found' when the id has no record and
\* 'No browser connection' when the record has no socket, whatever the
\* settings say about the tool, and then creates no pending entry, no timer
\* and no message.
C9_DeniedWithoutSession ==
    [][\A c \in CallIds :
          GateCalled(c) =>
            /\ ~Found(call'[c].sid)
                  => call'[c].outcome = SessionNotFoundDeny
                     /\ GateCallLeavesNoTrace(c)
            /\ (Found(call'[c].sid) /\ Session(call'[c].sid).socket = 0)
                  => call'[c].outcome = NoConnectionDeny
                     /\ GateCallLeavesNoTrace(c)]_vars

\* A tool the settings auto-approve was denied for want of a socket
C9_Witness ==
    \E c \in CallIds :
        /\ call[c].outcome = NoConnectionDeny
        /\ Found(call[c].sid)
        /\ Session(call[c].sid).socket = 0
        /\ Session(call[c].sid).settings.perms[call[c].tool] = "true"

\* C10: in either workflow, a tool outside the managed set is denied by the
\* caller and never reaches the gate (no auto-approval, no
\* permission_request).
C10_UnmanagedDenied ==
    \A c \in CallIds :
        (call[c].state # "unused" /\ call[c].tool \notin ManagedTools)
        => /\ ~call[c].gate
           /\ call[c].by = "caller"
           /\ call[c].outcome.behavior = "deny"

\* A stop message or a socket close whose session id has no record
TeardownOfNothing ==
    \E k \in SockIds :
        /\ socks[k].state = "open"
        /\ ~Found(socks[k].sid)
        /\ MsgStop(k) \/ SocketClose(k)

\* C11: a teardown (stop or socket close) of a session id that has no
\* record, never created or already torn down, changes no session state,
\* resolves nothing, sends nothing and throws nothing: a second teardown
\* leaves what the first one left.
C11_TeardownIdempotent ==
    [][TeardownOfNothing
       => /\ UNCHANGED <<sessions, records, call, run, driver, files, hist>>
          /\ sent' = << >>
          /\ threw' = FALSE]_vars

\* Both sockets of a session have closed: the first close tore the one
\* record down and denied its pending request, the second found nothing
C11_Witness ==
    /\ \A k \in SockIds : socks[k].state = "closed"
    /\ Cardinality({r \in RecIds : records[r].sid # 0}) = 1
    /\ \E c \in CallIds :
          /\ call[c].by = "cleanup"
          /\ call[c].resolves = 1
          /\ records[call[c].rec].abortEvents = 1
          /\ sessions[call[c].sid] = 0

\* Every record made for the session id s has been torn down
TornDown(s) ==
    /\ \E r \in RecIds : records[r].sid = s
    /\ \A r \in RecIds : records[r].sid = s => records[r].aborted

\* No record was ever made for the session id s
NeverExisted(s) == \A r \in RecIds : records[r].sid # s

\* C12: on a session id that has been torn down, as on an id that never
\* existed, the status is exists=false, a gate call returns deny 'Session
\* not found' and leaves no trace, an interrupt is neither queued nor
\* acknowledged, and runTask throws 'Session not found' changing nothing.
C12_TornDownAsNeverExisted ==
    [][\A s \in SessionIds :
          (TornDown(s) \/ NeverExisted(s)) =>
            /\ GetSessionStatus(s) = [exists |-> FALSE]
            /\ \A c \in CallIds :
                  (GateCalled(c) /\ call'[c].sid = s)
                  => /\ call'[c].outcome = SessionNotFoundDeny
                     /\ GateCallLeavesNoTrace(c)
            /\ (\E k \in SockIds, m \in Texts :
                   /\ socks[k].state = "open" /\ socks[k].sid = s
                   /\ MsgInterrupt(k, m))
                  => /\ UNCHANGED <<sessions, records, call, run, hist>>
                     /\ sent' = << >>
            /\ (\E wf \in Workflows : RunTaskRejected(s, wf))
                  => /\ RunTaskEntry(s) = "Session not found"
                     /\ threw'
                     /\ UNCHANGED <<sessions, records, call, run, hist>>]_vars

\* A run outlived the teardown of its session and its tool use was denied
\* for want of a session, while the closed session's socket is still open
\* (the teardown was a stop) and the status says the id does not exist
C12_Witness ==
    \E c \in CallIds, k \in SockIds :
        /\ call[c].outcome = SessionNotFoundDeny
        /\ TornDown(call[c].sid)
        /\ socks[k].state = "open" /\ socks[k].sid = call[c].sid
        /\ GetSessionStatus(call[c].sid) = [exists |-> FALSE]

\* The interrupt texts a generator has yielded, in order (its output after
\* the initial prompt)
Interrupts(d) ==
    [i \in 1..(Len(driver[d].out) - 1) |-> driver[d].out[i + 1].content]

\* a can be obtained from b by leaving elements out
RECURSIVE IsSubsequence(_, _)
IsSubsequence(a, b) ==
    IF a = << >> THEN TRUE
    ELSE IF b = << >> THEN FALSE
    ELSE IF Head(a) = Head(b) THEN IsSubsequence(Tail(a), Tail(b))
    ELSE IsSubsequence(a, Tail(b))

\* C13: interrupts reach the agent conversation in the order in which they
\* were enqueued: for every session record, the interrupts accepted are
\* those delivered so far, in that order, followed by those still queued,
\* and what each generator has emitted after its prompt follows that order.
C13_InterruptFifo ==
    /\ \A r \in RecIds :
          hist[r].accepted = hist[r].delivered \o records[r].interruptQueue
    /\ \A d \in DrvIds :
          (driver[d].state # "unused" /\ driver[d].rec # 0)
          => IsSubsequence(Interrupts(d), hist[driver[d].rec].delivered)

\* Two different interrupts were enqueued and one generator has delivered
\* both, oldest first, and found the queue empty afterwards
C13_Witness ==
    \E d \in DrvIds :
        /\ Interrupts(d) = << "m2", "m1" >>
        /\ hist[driver[d].rec].accepted = << "m2", "m1" >>
        /\ records[driver[d].rec].interruptQueue = << >>
        /\ driver[d].state = "waiting"
        /\ driver[d].waits = 2

\* The generator d yields a message in this step
Emits(d) == driver'[d].out # driver[d].out

\* Interrupts emitted so far by the generators that hold record r
RECURSIVE EmittedBy(_, _)
EmittedBy(D, r) ==
    IF D = {} THEN 0
    ELSE LET d == CHOOSE x \in D : TRUE
         IN (IF driver[d].state # "unused" /\ driver[d].rec = r
             THEN Len(driver[d].out) - 1 ELSE 0) + EmittedBy(D \ {d}, r)

\* C14: an interrupt is emitted at most once: the step in which a running
\* generator emits is the step that removes the head of the queue, it emits
\* that one message and no other generator emits it, and the emissions
\* never outnumber the interrupts accepted.
C14_DeliveredOnce ==
    /\ [][\A d \in DrvIds :
             (driver[d].state # "unused" /\ Emits(d))
             => LET r == driver[d].rec IN
                /\ r # 0
                /\ records[r].interruptQueue # << >>
                /\ driver'[d].out =
                      Append(driver[d].out,
                             UserMessage(Head(records[r].interruptQueue)))
                /\ records'[r].interruptQueue = Tail(records[r].interruptQueue)
                /\ \A e \in DrvIds \ {d} : driver'[e].out = driver[e].out]_vars
    /\ [](\A r \in RecIds : EmittedBy(DrvIds, r) <= Len(hist[r].accepted))

\* The same text was enqueued twice and emitted twice, once per enqueue
C14_Witness ==
    \E d \in DrvIds :
        /\ Interrupts(d) = << "m1", "m1" >>
        /\ hist[driver[d].rec].accepted = << "m1", "m1" >>
        /\ records[driver[d].rec].interruptQueue = << >>

\* C15: an interrupt message for an existing session is appended to the
\* end of its queue, whatever the queue holds, and acknowledged to the
\* client with an 'interrupt' message in that same step; no generator emits
\* in that step, so the acknowledgment precedes any delivery.
C15_EnqueueAcknowledged ==
    [][\A k \in SockIds, m \in Texts :
          (/\ socks[k].state = "open"
           /\ Found(socks[k].sid)
           /\ MsgInterrupt(k, m))
          => LET r == sessions[socks[k].sid] IN
             /\ records'[r].interruptQueue = Append(records[r].interruptQueue, m)
             /\ sent' = << Msg(records[r].socket, "interrupt", 0, m) >>
             /\ driver' = driver
             /\ hist'[r].delivered = hist[r].delivered]_vars

\* The second of two interrupts has just been acknowledged while both are
\* still queued behind a generator that is waiting
C15_Witness ==
    \E d \in DrvIds :
        /\ driver[d].state = "waiting"
        /\ driver[d].rec # 0
        /\ records[driver[d].rec].interruptQueue = << "m1", "m2" >>
        /\ sent = << Msg(records[driver[d].rec].socket, "interrupt", 0, "m2") >>
        /\ Interrupts(d) = << >>

\* C16: the first output of a generator is its one initial message, the
\* task text, emitted before the loop is entered (no pass, no wait yet);
\* everything it emits later is an interrupt text.
C16_InitialMessageFirst ==
    \A d \in DrvIds :
        driver[d].state # "unused"
        => /\ Len(driver[d].out) >= 1
           /\ driver[d].out[1] = UserMessage(InitialPrompt(driver[d].wf))
           /\ \A i \in 2..Len(driver[d].out) :
                 /\ driver[d].out[i].content \in Texts
                 /\ driver[d].out[i] # driver[d].out[1]
           /\ driver[d].state = "primed"
                 => /\ Len(driver[d].out) = 1
                    /\ driver[d].passes = 0
                    /\ driver[d].waits = 0

\* A generator that has emitted its prompt and then an interrupt
C16_Witness ==
    \E d \in DrvIds :
        /\ driver[d].state = "yielded"
        /\ Len(driver[d].out) = 2
        /\ driver[d].out[1].content = InitialPrompt(driver[d].wf)
        /\ driver[d].out[2].content \in Texts

\* C17: once the abort signal of a session is set, the generator of that
\* session's run yields nothing more into the conversation, whether the
\* signal was set before its first message (the generator of a run whose
\* record is aborted does not start emitting), while it polls, or while
\* its last message is being consumed.
C17_SilentAfterAbort ==
    [][/\ \A s \in SessionIds :
             (run[s].pc = "query" /\ records[run[s].rec].aborted)
             => \A d \in DrvIds :
                   driver[d].state = "unused" => driver'[d].out = << >>
       /\ \A d \in DrvIds :
             (driver[d].state # "unused" /\ records[driver[d].runrec].aborted)
             => driver'[d].out = driver[d].out]_vars

\* The generator d returns in this step because a completion check passed
CompletionExit(d) ==
    /\ driver[d].state # "done"
    /\ driver'[d].state = "done"
    /\ driver'[d].exit \in Workflows

\* C18: when a generator ends because a completion check reports done, the
\* step sets that workflow's completed flag and nothing else: no message is
\* emitted, the abort signal stays unset, the session stays registered, its
\* pending permission requests, their timers and its queue are untouched;
\* a generator that has returned never emits again.
C18_GracefulCompletion ==
    [][\A d \in DrvIds :
          /\ CompletionExit(d) =>
                LET r == driver[d].rec
                    slot == driver'[d].exit
                IN
                /\ IF slot = "questions" THEN records'[r].questionsCompleted
                                          ELSE records'[r].actionsCompleted
                /\ records' = [records EXCEPT ![r] = MarkCompleted(@, slot)]
                /\ ~records'[r].aborted
                /\ records'[r].pendingPermissions = records[r].pendingPermissions
                /\ driver'[d].out = driver[d].out
                /\ UNCHANGED <<sessions, socks, call, run, hist>>
                /\ sent' = << >>
          /\ driver[d].state = "done" => driver'[d] = driver[d]]_vars

\* A generator ended on completion while a permission request of its
\* session is pending with its timer running and an interrupt is queued
C18_Witness ==
    \E d \in DrvIds, c \in CallIds :
        /\ driver[d].state = "done"
        /\ driver[d].exit = driver[d].wf
        /\ sessions[driver[d].sid] = driver[d].rec
        /\ ~records[driver[d].rec].aborted
        /\ call[c].state = "pending" /\ call[c].timer = "armed"
        /\ c \in records[driver[d].rec].pendingPermissions
        /\ records[driver[d].rec].interruptQueue # << >>

\* The generator d makes a pass of its loop in this step
Tick(d) ==
    /\ driver[d].state \in {"primed", "waiting"}
    /\ driver'[d] # driver[d]

\* C19: a generator makes one 500 ms wait for each pass on which its
\* completion check answered false (k passes, k waits, counted below the
\* cap) and then ends without a further message; it ends at the first pass
\* on which the tracking file of its workflow is complete.
C19_EndsWhenComplete ==
    /\ [](\A d \in DrvIds :
            driver[d].passes < MaxWaits =>
              /\ driver[d].state \in {"waiting", "done"}
                    => driver[d].waits = driver[d].passes
              /\ driver[d].state = "yielded"
                    => driver[d].waits = driver[d].passes - 1)
    /\ [][\A d \in DrvIds :
             (Tick(d) /\ files[driver[d].wf] = "complete")
             => /\ driver'[d].state = "done"
                /\ driver'[d].out = driver[d].out]_vars

SlotFlag(rec, slot) ==
    IF slot = "questions" THEN rec.questionsCompleted ELSE rec.actionsCompleted

WorkItems(content) == Tail(SplitAt(content, "H"))

\* The answer / summary field of a work item as the file format lays it
\* out: the text between the label and the closing line "---"
Field(block) ==
    LET at == {i \in 1..Len(block) : block[i] = "A"}
        after == SubSeq(block, Min(at) + 1, Len(block))
        close == {j \in 1..Len(after) : after[j] = "S"}
    IN Trim(SubSeq(after, 1, IF close = {} THEN Len(after) ELSE Min(close) - 1))

FieldPasses(block) ==
    /\ Includes(block, "A")
    /\ TextLength(Field(block)) >= MinLength
    /\ ~Includes(Field(block), "F")
    /\ ~StartsWithBracket(Field(block))

\* C21: for a tracking file whose work items all carry the marker, the
\* completion check returns true exactly when every item's answer / summary
\* field is present, at least 10 characters long and not a placeholder
\* (does not contain the fill-in sentinel, does not start with "_["), and
\* false as soon as one item's field fails one of the three checks.
C21_CompleteIffAllFieldsPass ==
    (/\ mon.pc = "checked"
     /\ mon.status = "present"
     /\ \A i \in 1..Len(WorkItems(mon.content)) :
           Includes(WorkItems(mon.content)[i], "Q"))
    => (mon.result <=> \A i \in 1..Len(WorkItems(mon.content)) :
                           FieldPasses(WorkItems(mon.content)[i]))

\* C22: the completion check fails closed: for a file that does not exist
\* and for a file that cannot be read it returns false and raises nothing,
\* no text makes it raise, and the loop pass that made a failing check goes
\* on polling: it neither ends the generator nor crashes it.
C22_FailClosed ==
    mon.pc = "checked" =>
       /\ ~mon.raised
       /\ mon.loop # "crashed"
       /\ mon.status \in {"missing", "unreadable"} =>
             /\ ~mon.result
             /\ mon.loop = "polling"

\* A check has been made on a file that exists and cannot be read
C22_Witness ==
    /\ mon.pc = "checked"
    /\ mon.status = "unreadable"
    /\ mon.loop = "polling"

\* The run on s is suspended in the settings wait after w waits and the
\* record it holds has no settings
WaitingWithout(s, w) ==
    /\ run[s].pc = "suspended"
    /\ run[s].waits = w
    /\ ~records[run[s].rec].settings.present

\* The wait of runTask for the settings: never more than 50 waits; a further
\* wait begins only while the held record has no settings and fewer than 50
\* were made; after the 50th the run can go on, and the step that ends the
\* wait without settings starts the agent run unless the preparation throws
SettingsWaitBounded ==
    /\ [](\A s \in SessionIds :
            /\ run[s].waits <= SettingsPolls
            /\ WaitingWithout(s, SettingsPolls)
                 => /\ ENABLED RunTaskProceed(s, "prepared")
                    /\ ~ENABLED SettingsPoll(s)
            /\ (run[s].pc = "suspended"
                /\ records[run[s].rec].settings.present)
                 => ~ENABLED SettingsPoll(s))
    /\ [][\A s \in SessionIds :
            /\ (run[s].pc = "suspended" /\ run'[s].waits > run[s].waits)
                 => /\ ~records[run[s].rec].settings.present
                    /\ run[s].waits < SettingsPolls
                    /\ run'[s].pc = "suspended"
            /\ (WaitingWithout(s, SettingsPolls) /\ run'[s].pc = "query")
                 => /\ run'[s].warned
                    /\ ~threw'
                    /\ records'[run[s].rec].aborted
                          = records[run[s].rec].aborted]_vars

\* C23: the wait for the settings is bounded as above, and in a run that
\* went on without settings no tool is auto-approved.
C23_SettingsWaitBounded ==
    /\ SettingsWaitBounded
    /\ [][\A c \in CallIds :
            (GateCalled(c) /\ run[call'[c].sid].warned)
            => call'[c].by # "auto"]_vars

\* C23 as amended: the wait is bounded as above, and no tool is
\* auto-approved while the session has no settings: an auto-approval is
\* made only from settings that have arrived, also in a run that went on
\* without them.
C23_NoAutoApproveWithoutSettings ==
    /\ SettingsWaitBounded
    /\ [][\A c \in CallIds :
            (GateCalled(c) /\ call'[c].by = "auto")
            => /\ Found(call'[c].sid)
               /\ Session(call'[c].sid).settings.present
               /\ IsAutoApproved(Session(call'[c].sid).settings, call'[c].tool)]_vars

\* A run went on after 50 waits without settings and a tool it asked for
\* went to the client for a decision
C23_Witness ==
    \E s \in SessionIds, c \in CallIds :
        /\ run[s].pc = "query"
        /\ run[s].waits = SettingsPolls
        /\ run[s].warned
        /\ call[c].sid = s
        /\ call[c].state = "pending"
        /\ call[c].tool = "Read"

\* The connection k is opened for session id s in this step
Bound(s, k) ==
    /\ socks[k].state = "unused"
    /\ socks'[k].state = "open"
    /\ socks'[k].sid = s

\* C24: a connection made under an id without record registers a fresh
\* record holding the new socket; one made under an id that has a record
\* keeps that record registered and changes nothing of it but the socket:
\* settings, abort signal, pending requests, their timers and the queued
\* interrupts stay as they were, and so does every other record.
C24_BindKeepsRecord ==
    [][\A s \in SessionIds, k \in SockIds :
          Bound(s, k) =>
             IF Found(s)
             THEN /\ sessions' = sessions
                  /\ records' = [records EXCEPT ![sessions[s]].socket = k]
                  /\ call' = call
                  /\ hist' = hist
             ELSE /\ sessions'[s] # 0
                  /\ records[sessions'[s]].sid = 0
                  /\ records' = [records EXCEPT ![sessions'[s]] =
                                    [FreshRecord EXCEPT !.sid = s, !.socket = k]]
                  /\ call' = call]_vars

\* A session was bound a second time while it had settings, a pending
\* permission request with its timer running and a queued interrupt
C24_Witness ==
    \E s \in SessionIds, c \in CallIds :
        /\ Found(s)
        /\ Session(s).socket = 2
        /\ socks[1].sid = s
        /\ socks[1].state = "open"
        /\ Session(s).settings.present
        /\ ~Session(s).aborted
        /\ c \in Session(s).pendingPermissions
        /\ call[c].state = "pending"
        /\ call[c].timer = "armed"
        /\ Len(Session(s).interruptQueue) > 0

\* The agent run of s completes and runTask returns in this step
RunTaskReturns(s) == run[s].pc = "query" /\ run'[s].pc = "none" /\ ~threw'

\* C25: a session leaves the registry at the first of its socket closing, a
\* stop message, or its agent run ending: once runTask has returned for a
\* session id, the id maps to no record.
C25_RemovedWhenRunEnds ==
    [][\A s \in SessionIds : RunTaskReturns(s) => sessions'[s] = 0]_vars

\* The agent run of s raises and runTask re-throws in this step
RunTaskRaises(s) == run[s].pc = "query" /\ run'[s].pc = "none" /\ threw'

\* A client of session id s is connected
ClientConnected(s) ==
    \E k \in SockIds : socks[k].sid = s /\ socks[k].state = "open"

\* C26: whenever the agent run raises inside runTask, also after a stop or
\* an abort, the step that re-throws first puts an 'error' notification on
\* a socket of the session's client.
C26_ErrorSentBeforeRethrow ==
    [][\A s \in SessionIds :
          (RunTaskRaises(s) /\ ClientConnected(s))
          => \E i \in 1..Len(sent') :
                /\ sent'[i].type = "error"
                /\ socks[sent'[i].sock].sid = s
                /\ socks[sent'[i].sock].state = "open"]_vars

\* A step that sets an abort signal, or takes a session out of the registry
GetsAborted == \E r \in RecIds : ~records[r].aborted /\ records'[r].aborted

GetsRemoved == \E s \in SessionIds : Found(s) /\ sessions'[s] = 0

\* A pending request is denied by the client or by its timer
LocalDenial(c) ==
    /\ call[c].state = "pending"
    /\ call'[c].state = "resolved"
    /\ call'[c].by \in {"response", "timeout"}
    /\ call'[c].outcome.behavior = "deny"

\* runTask leaves its suspension after the settings wait ran out, or with
\* a repository that could not be prepared
LocalPreparation(s) ==
    /\ run[s].pc = "suspended"
    /\ sessions[s] = run[s].rec
    /\ run'[s].pc # "suspended"
    /\ \/ ~records[run[s].rec].settings.present
       \/ run'[s].instructions = "selfPrepare"
       \/ threw'

\* Nothing but the requests cs is touched: abort signals, registry, the
\* other requests, the pending maps and the interrupt queues
Undisturbed(cs) ==
    /\ sessions' = sessions
    /\ \A c \in CallIds \ cs : call'[c] = call[c]
    /\ \A r \in RecIds :
          /\ records'[r].aborted = records[r].aborted
          /\ records'[r].pendingPermissions = records[r].pendingPermissions \ cs
          /\ records'[r].interruptQueue = records[r].interruptQueue

\* C27: the abort signal is set and a session removed only by socket close
\* or stop; a permission denial or timeout, a settings timeout and a failed
\* repository preparation neither abort nor remove, and leave the other
\* pending requests and the queued interrupts unchanged.
C27_OnlyTeardownAborts ==
    [][/\ (GetsAborted \/ GetsRemoved) => \E k \in SockIds : TeardownStep(k)
       /\ \A c \in CallIds : LocalDenial(c) => Undisturbed({c})
       /\ \A s \in SessionIds : LocalPreparation(s) => Undisturbed({})
      ]_vars

\* C28: when the repository preparation reports prepared = false, runTask
\* does not fail: the workspace path is recorded, the agent run is started
\* with the self-prepare instructions, and the session is neither aborted
\* nor removed.
C28_DegradedPreparation ==
    [][\A s \in SessionIds : RunTaskProceed(s, "failed") =>
          LET r == run[s].rec IN
          /\ ~threw'
          /\ records'[r].workspace = "path"
          /\ records'[r].repoStatus = "failed"
          /\ run'[s].pc = "query"
          /\ run'[s].instructions = "selfPrepare"
          /\ records'[r].aborted = records[r].aborted
          /\ sessions' = sessions]_vars

\* A registered session runs its agent on a repository it must prepare
C28_Witness ==
    \E s \in SessionIds :
       /\ run[s].pc = "query"
       /\ run[s].instructions = "selfPrepare"
       /\ sessions[s] = run[s].rec
       /\ records[run[s].rec].repoStatus = "failed"
       /\ records[run[s].rec].workspace = "path"
       /\ ~records[run[s].rec].aborted

\* The id has no record, or a record without socket
Unusable(s) == ~Found(s) \/ Session(s).socket = 0

\* C29: runTask called for an id without record, or whose record has no
\* socket, fails at once with 'Session not found' / 'WebSocket not
\* connected': nothing is changed, nothing is sent, no run is started, and
\* the HTTP handler answers with an error response.
C29_RejectedAtEntry ==
    [][\A s \in SessionIds : Unusable(s) =>
          /\ run[s].pc = "none" => run'[s] = run[s]
          /\ \A wf \in Workflows : RunTaskRejected(s, wf) =>
                /\ threw'
                /\ sent' = << >>
                /\ UNCHANGED <<sessions, records, socks, call, run, driver,
                               files, hist, mon, relay>>
                /\ RunTaskEntry(s) = IF Found(s) THEN "WebSocket not connected"
                                     ELSE "Session not found"
                /\ HttpAnswer(RunTaskEntry(s)) =
                      [status |-> 500, success |-> FALSE,
                       error |-> RunTaskEntry(s)]]_vars

\* runTask has just thrown for a session that was created and never bound
C29_Witness ==
    \E s \in SessionIds :
       /\ Found(s)
       /\ Session(s).socket = 0
       /\ threw
       /\ run[s].pc = "none"

\* The 'thinking' notifications of the step
ThinkingSent == SelectSeq(sent', LAMBDA m : m.type = "thinking")

\* The step ends a text block that carried non-blank text: its stop event,
\* or the start of the next block when the stream was cut before the stop
TextBlockEnds(s) ==
    /\ BlockStop(s) \/ \E ty \in BlockTypes, tl \in ToolNames : BlockStart(s, ty, tl)
    /\ relay[s].block = "text"
    /\ HasThinking(relay[s].deltas)

\* The buffer is empty after a flush and at the start of every text block,
\* and no step but the end of a non-blank text block sends a 'thinking'
\* notification
NothingTwice ==
    /\ \A s \in SessionIds :
          /\ TextBlockEnds(s) => relay'[s].currentThinkingText = << >>
          /\ relay'[s].block = "text" /\ relay[s].block # "text" =>
                relay'[s].currentThinkingText = << >>
    /\ (\A s \in SessionIds : ~TextBlockEnds(s)) => ThinkingSent = << >>

\* C30: for every text block of the stream with non-blank text the relay
\* sends exactly one 'thinking' notification, the concatenation of the
\* block's text deltas in order; nothing is sent per delta, and the buffer
\* is emptied on flush, so no text is sent twice or carried into the next
\* block.
C30_OneThinkingPerBlock ==
    [][/\ \A s \in SessionIds : TextBlockEnds(s) =>
             /\ Len(ThinkingSent) = 1
             /\ ThinkingSent[1].body = relay[s].deltas
       /\ NothingTwice]_vars

\* C30 as the code has it: the notification goes out when the session is
\* still registered with a socket, and to that socket; for a session that
\* was torn down meanwhile the text is dropped, the buffer emptied all the
\* same.
C30_OneThinkingWhileRegistered ==
    [][/\ \A s \in SessionIds : TextBlockEnds(s) =>
             ThinkingSent =
                IF Found(s) /\ Session(s).socket # 0
                THEN << StreamMsg(Session(s).socket, "thinking", relay[s].deltas) >>
                ELSE << >>
       /\ NothingTwice]_vars

\* A text block of two deltas has just been sent to the client as one text
C30_Witness ==
    \E s \in SessionIds :
       /\ Found(s)
       /\ run[s].pc = "query"
       /\ relay[s].block = "none"
       /\ relay[s].currentThinkingText = << >>
       /\ Len(sent) = 1
       /\ sent[1].type = "thinking"
       /\ Len(sent[1].body) = MaxDeltas
       /\ sent[1].sock = Session(s).socket

\* The tool-input previews of the step
PreviewSent ==
    SelectSeq(sent', LAMBDA m : m.type = "progress" /\ "body" \in DOMAIN m)

\* The stop event of a tool-use block
ToolBlockCloses(s) == BlockStop(s) /\ relay[s].block = "tool_use"

\* The raw buffered text, cut, as the message for an input that is no JSON
RawPreview(name, input) ==
    << name >> \o Substring(input, PreviewLimit) \o << "..." >>

\* The preview is built from the block's deltas, the raw text cut when they
\* do not parse
BuiltFrom(m, name, deltas) ==
    /\ Head(m.body) = name
    /\ ~ParsesAsJson(deltas) => m.body = RawPreview(name, deltas)
    /\ ParsesAsJson(deltas) =>
          SubSeq(m.body, 2, 2) = SubSeq(Stringify(deltas), 1, 1)

\* No step but the stop of a block sends a preview, and no step of the
\* relay throws
OnlyAtStop ==
    /\ (\A s \in SessionIds : ~BlockStop(s)) => PreviewSent = << >>
    /\ \A s \in SessionIds :
          (\/ BlockStop(s)
           \/ \E ty \in BlockTypes, tl \in ToolNames : BlockStart(s, ty, tl)
           \/ \E j \in JsonDeltas : InputDelta(s, j)) => ~threw'

\* C31: for every tool-use block the relay sends the tool-input preview
\* only when the block closes, built from the concatenation of its input
\* deltas, the raw buffered text cut when that does not parse as JSON; the
\* relay does not throw, and the tool name and the input buffer are reset.
C31_PreviewAtClose ==
    [][/\ \A s \in SessionIds : ToolBlockCloses(s) =>
             /\ Len(PreviewSent) = 1
             /\ BuiltFrom(PreviewSent[1], relay[s].currentToolName,
                          relay[s].deltas)
             /\ relay'[s].currentToolName = "null"
             /\ relay'[s].currentToolInput = << >>
       /\ OnlyAtStop]_vars

\* C31 as the code has it: the preview is sent for a block that carried
\* input, to the socket of the session if it is still registered; a block
\* without input sends nothing and leaves the tool name set.
C31_PreviewOfBufferedInput ==
    [][/\ \A s \in SessionIds : ToolBlockCloses(s) =>
             LET name == relay[s].currentToolName
                 deltas == relay[s].deltas
             IN
             /\ IF deltas # << >> /\ Found(s) /\ Session(s).socket # 0
                THEN /\ Len(PreviewSent) = 1
                     /\ PreviewSent[1].sock = Session(s).socket
                     /\ BuiltFrom(PreviewSent[1], name, deltas)
                ELSE PreviewSent = << >>
             /\ relay'[s].currentToolName =
                   IF deltas # << >> THEN "null" ELSE name
             /\ relay'[s].currentToolInput = << >>
       /\ OnlyAtStop]_vars

\* The preview of an input that did not parse has just been sent, raw
C31_Witness ==
    \E s \in SessionIds :
       /\ Found(s)
       /\ run[s].pc = "query"
       /\ relay[s].block = "none"
       /\ relay[s].currentToolName = "null"
       /\ Len(sent) = 1
       /\ sent[1].type = "progress"
       /\ "body" \in DOMAIN sent[1]
       /\ sent[1].body \in { <<tl, "J", "...">> : tl \in ToolNames }

\* The generator d is at a pass of its loop with its session not aborted
\* and an interrupt queued
TickWithQueue(d) ==
    /\ Tick(d)
    /\ driver[d].rec # 0
    /\ ~records[driver[d].rec].aborted
    /\ records[driver[d].rec].interruptQueue # << >>

\* C32: the checks of a pass are ordered abort, completion, interrupts.
\* On a pass where the tracking file is complete and the queue is not empty
\* the generator ends without emitting a queued interrupt; on a pass where
\* it is not complete and the queue is not empty it emits the oldest
\* interrupt, one per pass, and then waits one interval.
C32_TickOrder ==
    [][\A d \in DrvIds :
          LET r == driver[d].rec IN
          /\ (TickWithQueue(d) /\ files[driver[d].wf] = "complete") =>
                /\ driver'[d].state = "done"
                /\ driver'[d].out = driver[d].out
                /\ records'[r].interruptQueue = records[r].interruptQueue
          /\ (TickWithQueue(d) /\ \A wf \in Workflows : files[wf] # "complete") =>
                /\ driver'[d].state = "yielded"
                /\ driver'[d].out =
                      Append(driver[d].out,
                             UserMessage(Head(records[r].interruptQueue)))
                /\ records'[r].interruptQueue = Tail(records[r].interruptQueue)
          /\ (driver[d].state = "yielded" /\ driver'[d] # driver[d]) =>
                /\ driver'[d].state = "waiting"
                /\ driver'[d].out = driver[d].out
                /\ records'[r].interruptQueue = records[r].interruptQueue]_vars

\* runTask, which had to wait for the settings, leaves its suspension after
\* the record it holds was taken out of the registry
ResumesTornDown(s) ==
    /\ run[s].pc = "suspended"
    /\ run[s].waits > 0
    /\ sessions[s] # run[s].rec
    /\ records[run[s].rec].aborted
    /\ run'[s].pc # "suspended"

\* C33: a runTask whose session was torn down while it was suspended does
\* not go on with the record it fetched before: after resuming it writes no
\* workspace, queue or completion field to that record and starts no agent
\* run for it.
C33_NoUseAfterTeardown ==
    [][\A s \in SessionIds : ResumesTornDown(s) =>
          /\ records'[run[s].rec] = records[run[s].rec]
          /\ run'[s].pc # "query"]_vars

\* The generator d is in its 500 ms wait, holding a session record
Polling(d) == driver[d].state = "waiting" /\ driver[d].rec # 0

\* The pieces of C34 that single steps decide: a stop or close sets the
\* abort signal of the record every generator of that session polls; a
\* generator whose signal is set ends at its next pass without emitting or
\* dequeuing; a generator that has ended stays as it is
AbortEndsDriver ==
    /\ \A k \in SockIds, d \in DrvIds :
          (TeardownStep(k) /\ Polling(d) /\ driver[d].sid = socks[k].sid)
             => records'[driver[d].rec].aborted
    /\ \A d \in DrvIds :
          /\ (Polling(d) /\ records[driver[d].rec].aborted /\ Tick(d)) =>
                /\ driver'[d].state = "done"
                /\ driver'[d].out = driver[d].out
                /\ records' = records
          /\ driver[d].state = "done" => driver'[d] = driver[d]

\* C34: stop and socket close trigger the abort signal the generator of
\* that session reads: after a stop or close processed while a generator
\* is polling, the generator leaves its loop at its next pass and never
\* emits again; it does terminate after every stop.
C34_DriverEndsAfterStop ==
    /\ [][AbortEndsDriver]_vars
    /\ \A d \in DrvIds :
          (Polling(d) /\ records[driver[d].rec].aborted)
             ~> (driver[d].state = "done")

\* A generator that was polling has ended on the abort signal, its session
\* gone from the registry
C34_Witness ==
    \E d \in DrvIds :
       /\ driver[d].state = "done"
       /\ driver[d].exit = "aborted"
       /\ driver[d].waits > 0
       /\ sessions[driver[d].sid] = 0

\* C35: whatever permission_response the client sends for a pending
\* request, one without a result included, the outcome the gate returns to
\* the agent has behavior allow or deny.
C35_OutcomeAllowOrDeny ==
    \A c \in CallIds :
       call[c].state = "resolved" =>
          call[c].outcome.behavior \in {"allow", "deny"}

\* The socket k closes after a reconnect has attached another socket to
\* its session
ReplacedSocketCloses(k) ==
    /\ socks[k].state = "open"
    /\ socks'[k].state = "closed"
    /\ Found(socks[k].sid)
    /\ Session(socks[k].sid).socket # k

\* C36: the close of a socket tears the session down only when that socket
\* is the one attached to it: the close of a replaced socket leaves the
\* session registered, its abort signal unset, its pending requests and
\* its interrupt queue intact.
C36_ReplacedSocketClose ==
    [][\A k \in SockIds : ReplacedSocketCloses(k) =>
          LET r == sessions[socks[k].sid] IN
          /\ sessions' = sessions
          /\ records'[r].aborted = records[r].aborted
          /\ records'[r].pendingPermissions = records[r].pendingPermissions
          /\ records'[r].interruptQueue = records[r].interruptQueue
          /\ call' = call]_vars

\* The queue q2 begins with the queue q
BeginsWith(q2, q) == Len(q) <= Len(q2) /\ SubSeq(q2, 1, Len(q)) = q

\* The record r stays registered over the step and no generator on it has
\* ended
StaysLive(r) ==
    /\ \E s \in SessionIds : sessions[s] = r /\ sessions'[s] = r
    /\ \A d \in DrvIds : driver[d].rec = r => driver[d].state # "done"

\* C37: every interrupt enqueued and acknowledged for a session is, until
\* the generator ends or the session is torn down, delivered to the agent
\* or still in the queue: a step keeps the queue, or takes its oldest
\* interrupt and delivers it; the start of a run discards none.
C37_NoInterruptLost ==
    [][\A r \in RecIds : StaysLive(r) =>
          LET q == records[r].interruptQueue
              q2 == records'[r].interruptQueue
          IN \/ BeginsWith(q2, q)
             \/ /\ q # << >>
                /\ BeginsWith(q2, Tail(q))
                /\ \E d \in DrvIds :
                      /\ driver[d].rec = r
                      /\ driver'[d].out =
                            Append(driver[d].out, UserMessage(Head(q)))]_vars

\* The user has answered the request c, made for tool t in session s, with
\* 'Always Allow', and the server has handled both messages of the answer
AlwaysAllowed(c, s, t) ==
    /\ call[c].dialog.answer = "always"
    /\ call[c].sid = s
    /\ call[c].tool = t

\* No settings message has replaced the settings of the answer to c
NoLaterSettings(c) == records[call[c].rec].settings.msg = c

\* The step calls the gate for c2, which approves with the agent's input
\* and sends nothing to the client
AutoApproved(c2) ==
    /\ call'[c2].state = "resolved"
    /\ call'[c2].by = "auto"
    /\ call'[c2].outcome = Allow(call'[c2].input)
    /\ call'[c2].timer = "none"
    /\ sent' = << >>

NoMarkerIsComplete ==
    \A wf \in Workflows, text \in FileTexts(MaxBlocks) :
       ~Includes(text, "Q") =>
          CheckFile(wf, "present", text) = [result |-> TRUE, raised |-> FALSE]

\* The generator d makes the first pass of its loop in this step
FirstTick(d) ==
    /\ driver[d].state = "primed"
    /\ driver'[d] # driver[d]

\* C39: a tracking file that exists and holds no block with the work-item
\* marker (an empty file included) is reported complete, so a generator
\* whose workflow has such a file ends at its first pass: it has yielded the
\* initial message only, and no queued interrupt is taken or delivered.
C39_NoMarkerEndsAtFirstTick ==
    /\ NoMarkerIsComplete
    /\ [][\A d \in DrvIds :
             (FirstTick(d) /\ files[driver[d].wf] = "complete") =>
                /\ driver'[d].state = "done"
                /\ driver'[d].out = FirstYield(driver[d].wf)
                /\ \A r \in RecIds :
                      records'[r].interruptQueue = records[r].interruptQueue
                /\ hist' = hist]_vars

====
